---- MODULE Spec2Model ----
(***************************************************************************)
(* Secure digital locker: the access-control evaluator, the document       *)
(* lifecycle and the audit ledger, modelled from the service layer         *)
(* (documentService.js, firebaseService.js, auditService.js), the auth     *)
(* middleware and the document and admin routes.                           *)
(*                                                                         *)
(* One action is one request: the middleware chain of the route (when the  *)
(* request enters through the route) followed by the service method, with  *)
(* the point at which a collaborator (blob store, metadata store, identity *)
(* provider, audit store) fails drawn as an input.                         *)
(***************************************************************************)
EXTENDS Integers, Sequences, FiniteSets, TLC

\* ------------------------------------------------------------------------
\* Bounds of the model
\* ------------------------------------------------------------------------
MaxDocs == 1
MaxAudit == 2
MaxAccess == 1
MaxTicks == 1

\* ------------------------------------------------------------------------
\* Values
\* ------------------------------------------------------------------------
\* JavaScript's undefined (a missing claim, field or argument)
NoVal == "undefined"
\* a timestamp field that was never written
NoTime == -1

\* config.roles
ADMIN == "admin"
HR == "hr"
EMPLOYEE == "employee"
Roles == {ADMIN, HR, EMPLOYEE}

\* config.auditEvents (the kinds the modelled paths emit)
DOCUMENT_UPLOAD == "document_upload"
DOCUMENT_DOWNLOAD == "document_download"
DOCUMENT_DELETE == "document_delete"
ROLE_CHANGE == "role_change"
ACCESS_DENIED == "access_denied"
USER_LOGIN == "user_login"

\* the retention floor of POST /cleanup-logs, in days
RetentionFloor == 365
\* days that pass in one step of the clock
TickDays == 400

\* principals known to the identity provider and the users store
Uids == {"u1", "u2", "u3"}
\* employee ids a request can name
EmployeeIds == {"E1", "E2"}

DocNames == <<"d1", "d2", "d3">>
DocIds == {DocNames[i] : i \in 1..MaxDocs}
\* the two objects of one document in the bucket: ciphertext and sidecar
ObjectKinds == {"data", "enc"}

VARIABLES
    authClaims,   \* Firebase Auth custom claims: uid -> [role, employeeId]
    users,        \* users collection: uid -> [role, isActive]
    documents,    \* document_metadata collection: id -> DocumentRecord
    bucket,       \* Cloud Storage bucket: set of <<id, kind>>
    auditLogs,    \* audit_logs collection, in creation order
    auditUp,      \* whether the audit store takes writes
    now,          \* the clock, in days
    memo,         \* the access decision a request was given, as recorded
    inflight,     \* the requests that run concurrently, each at its step
    limiter       \* one rateLimit instance: its Map of request times, the clock

vars == <<authClaims, users, documents, bucket, auditLogs, auditUp, now, memo,
          inflight, limiter>>

\* ------------------------------------------------------------------------
\* Access-control evaluator
\* ------------------------------------------------------------------------

\* FirebaseService.verifyToken: the principal of a request
verifyToken(uid) ==
    [uid |-> uid,
     role |-> IF authClaims[uid].role = NoVal THEN EMPLOYEE ELSE authClaims[uid].role,
     employeeId |-> authClaims[uid].employeeId]

\* FirebaseService.hasRole
hasRole(user, requiredRoles) ==
    IF user.role = NoVal THEN FALSE ELSE user.role \in requiredRoles

\* variant of FirebaseService.canAccessDocument: the employee branch does not
\* look at the document
FirebaseService_canAccessDocument_anyEmployee(user, document) ==
    user.role \in {ADMIN, HR, EMPLOYEE}

\* FirebaseService.canAccessDocument
FirebaseService_canAccessDocument(user, document) ==
    IF user.role = ADMIN THEN TRUE
    ELSE IF user.role = HR THEN TRUE
    ELSE IF user.role = EMPLOYEE
         THEN document.employeeId = user.employeeId \/ document.ownerId = user.uid
    ELSE FALSE

\* variant of canUploadDocument: every role may upload
canUploadDocument_anyRole(userInfo, metadata) ==
    hasRole(userInfo, {HR, ADMIN, EMPLOYEE})

\* DocumentService.canUploadDocument
canUploadDocument(userInfo, metadata) ==
    hasRole(userInfo, {HR, ADMIN})

\* variant of DocumentService.canAccessDocument: the sharing list is not read
canAccessDocument_noSharing(userInfo, documentMetadata) ==
    IF FirebaseService_canAccessDocument(userInfo, documentMetadata) THEN "true"
    ELSE "false"

\* variant of DocumentService.canAccessDocument: sharedWith.includes without
\* the optional chaining, which throws on a record with no sharing list
canAccessDocument_noOptionalChaining(userInfo, documentMetadata) ==
    IF FirebaseService_canAccessDocument(userInfo, documentMetadata) THEN "true"
    ELSE IF ~documentMetadata.hasSharedWith THEN "TypeError"
    ELSE IF userInfo.uid \in documentMetadata.sharedWith THEN "true"
    ELSE "false"

\* DocumentService.canAccessDocument; the value is the JavaScript value of
\*   firebaseService.canAccessDocument(..) || sharedWith?.includes(uid)
\* as a string: "true", "false" or "undefined" (no sharing list)
canAccessDocument(userInfo, documentMetadata) ==
    IF FirebaseService_canAccessDocument(userInfo, documentMetadata) THEN "true"
    ELSE IF ~documentMetadata.hasSharedWith THEN NoVal
    ELSE IF userInfo.uid \in documentMetadata.sharedWith THEN "true"
    ELSE "false"

\* variant of canDeleteDocument: admin is left out
canDeleteDocument_hrOnly(userInfo, documentMetadata) ==
    hasRole(userInfo, {HR})

\* DocumentService.canDeleteDocument
canDeleteDocument(userInfo, documentMetadata) ==
    hasRole(userInfo, {ADMIN, HR})

\* variant of canShareDocument: the owner clause is left out
canShareDocument_roleOnly(userInfo, documentMetadata) ==
    hasRole(userInfo, {ADMIN, HR})

\* DocumentService.canShareDocument
canShareDocument(userInfo, documentMetadata) ==
    documentMetadata.ownerId = userInfo.uid \/ hasRole(userInfo, {ADMIN, HR})

\* ------------------------------------------------------------------------
\* Audit ledger
\* ------------------------------------------------------------------------

\* AuditService.isCriticalEvent
isCriticalEvent(eventType) ==
    eventType \in {DOCUMENT_DELETE, ROLE_CHANGE, ACCESS_DENIED}

\* AuditService.logEvent: the ledger after the call. The write of the entry
\* (auditCollection.doc(id).set) succeeds or fails (writeOk); a failure is
\* caught and nothing is written.
\* variant of logEvent: the entry is written under the id of the newest entry
logEvent_sameId(ledger, eventData, writeOk) ==
    LET entry == [eventType |-> eventData.eventType,
                  timestamp |-> now,
                  uid |-> eventData.uid,
                  resourceId |-> eventData.resourceId,
                  success |-> eventData.success,
                  action |-> eventData.action,
                  reason |-> eventData.reason]
    IN  IF ~writeOk THEN ledger
        ELSE IF ledger = <<>> THEN <<entry>>
        ELSE [ledger EXCEPT ![Len(ledger)] = entry]

logEvent(ledger, eventData, writeOk) ==
    IF writeOk
    THEN Append(ledger, [eventType |-> eventData.eventType,
                         timestamp |-> now,
                         uid |-> eventData.uid,
                         resourceId |-> eventData.resourceId,
                         success |-> eventData.success,
                         action |-> eventData.action,
                         reason |-> eventData.reason])
    ELSE ledger

\* variant of logEvent's completion: the failure of the write is rethrown
logEventResult_rethrow(writeOk) ==
    IF writeOk
    THEN [returned |-> "auditLogId", thrown |-> FALSE, consoleError |-> FALSE]
    ELSE [returned |-> NoVal, thrown |-> TRUE, consoleError |-> TRUE]

\* AuditService.logEvent: how the call completes. It returns the id of the
\* entry; when the write throws, the catch emits console.error and returns
\* null.
logEventResult(writeOk) ==
    IF writeOk
    THEN [returned |-> "auditLogId", thrown |-> FALSE, consoleError |-> FALSE]
    ELSE [returned |-> "null", thrown |-> FALSE, consoleError |-> TRUE]

\* AuditService.logEvent: what the call emits to the process log with
\* console.log. The AUDIT line of a critical event is written after the
\* write of the entry, inside the same try: a write that throws skips it.
consoleLog(eventData, writeOk) ==
    IF writeOk /\ isCriticalEvent(eventData.eventType)
    THEN <<[eventType |-> eventData.eventType, userId |-> eventData.uid,
            resource |-> eventData.resourceId, success |-> eventData.success]>>
    ELSE <<>>

\* AuditService.logAccessDenied: the event data handed to logEvent
\* (action is metadata.attemptedAction, reason is metadata.reason)
logAccessDenied(userInfo, resourceId, attemptedAction, reason) ==
    [eventType |-> ACCESS_DENIED, uid |-> userInfo.uid, resourceId |-> resourceId,
     success |-> FALSE, action |-> attemptedAction, reason |-> reason]

\* AuditService.logDocumentUpload
logDocumentUpload(userInfo, documentId, success) ==
    [eventType |-> DOCUMENT_UPLOAD, uid |-> userInfo.uid, resourceId |-> documentId,
     success |-> success, action |-> NoVal, reason |-> NoVal]

\* AuditService.logDocumentDownload
logDocumentDownload(userInfo, documentId, success) ==
    [eventType |-> DOCUMENT_DOWNLOAD, uid |-> userInfo.uid, resourceId |-> documentId,
     success |-> success, action |-> NoVal, reason |-> NoVal]

\* AuditService.logDocumentDelete (metadata.reason defaults to user_request)
logDocumentDelete(userInfo, documentId, success) ==
    [eventType |-> DOCUMENT_DELETE, uid |-> userInfo.uid, resourceId |-> documentId,
     success |-> success, action |-> NoVal, reason |-> "user_request"]

\* AuditService.logRoleChange
logRoleChange(userInfo, targetUserId, success) ==
    [eventType |-> ROLE_CHANGE, uid |-> userInfo.uid, resourceId |-> targetUserId,
     success |-> success, action |-> NoVal, reason |-> "Admin role change"]

\* AuditService.logUserLogin
logUserLogin(userInfo, success) ==
    [eventType |-> USER_LOGIN, uid |-> userInfo.uid, resourceId |-> NoVal,
     success |-> success, action |-> NoVal, reason |-> NoVal]

\* ------------------------------------------------------------------------
\* Responses
\* ------------------------------------------------------------------------

\* A response: the stores as the request leaves them, the events it hands
\* to logEvent (in call order), the effects and logEvent calls in the order
\* they happened (steps), and what is returned to the caller.
Unchanged ==
    [documents |-> documents, bucket |-> bucket, users |-> users,
     authClaims |-> authClaims, kept |-> auditLogs,
     logs |-> <<>>, steps |-> <<>>, result |-> "none",
     listed |-> {}, returned |-> NoVal]

\* the record of a document that does not exist
NoDoc ==
    [ownerId |-> NoVal, employeeId |-> NoVal, hasSharedWith |-> FALSE, sharedWith |-> {},
     isActive |-> FALSE, accessCount |-> 0, version |-> 0, deletedBy |-> NoVal,
     deletedAt |-> NoTime]

DocOf(documentId) ==
    IF documentId \in DOMAIN documents THEN documents[documentId] ELSE NoDoc

\* uuidv4 / generateSecureFileName: an id no record and no object uses
FreshIds == DocIds \ (DOMAIN documents \cup {o[1] : o \in bucket})
FreshId == DocNames[CHOOSE i \in 1..MaxDocs :
                       /\ DocNames[i] \in FreshIds
                       /\ \A j \in 1..(i - 1) : DocNames[j] \notin FreshIds]

\* ------------------------------------------------------------------------
\* Document service
\* ------------------------------------------------------------------------

\* variant of uploadDocument: the success event is logged before the metadata
\* write, so a failing write logs a failure after the success
uploadDocument_logFirst(metadata, userInfo, fail) ==
    IF ~canUploadDocument(userInfo, metadata) THEN
        [Unchanged EXCEPT
            !.logs = <<logAccessDenied(userInfo, NoVal, "upload_document",
                                       "insufficient_permissions"),
                       logDocumentUpload(userInfo, NoVal, FALSE)>>,
            !.steps = <<ACCESS_DENIED, DOCUMENT_UPLOAD>>,
            !.result = "denied"]
    ELSE
        LET id == FreshId
            record == [ownerId |-> userInfo.uid,
                       employeeId |-> IF metadata.employeeId # NoVal
                                      THEN metadata.employeeId
                                      ELSE userInfo.employeeId,
                       hasSharedWith |-> TRUE, sharedWith |-> {},
                       isActive |-> TRUE, accessCount |-> 0, version |-> 1,
                       deletedBy |-> NoVal, deletedAt |-> NoTime]
            failed == <<logDocumentUpload(userInfo, NoVal, FALSE)>>
        IN  CASE fail = "save_data" ->
                    [Unchanged EXCEPT
                        !.logs = failed,
                        !.steps = <<DOCUMENT_UPLOAD>>,
                        !.result = "error"]
              [] fail = "save_enc" ->
                    [Unchanged EXCEPT
                        !.bucket = bucket \cup {<<id, "data">>},
                        !.logs = failed,
                        !.steps = <<"save_data", DOCUMENT_UPLOAD>>,
                        !.result = "error"]
              [] fail = "set" ->
                    [Unchanged EXCEPT
                        !.bucket = bucket \cup {<<id, "data">>, <<id, "enc">>},
                        !.logs = <<logDocumentUpload(userInfo, id, TRUE)>> \o failed,
                        !.steps = <<"save_data", "save_enc", DOCUMENT_UPLOAD,
                                    DOCUMENT_UPLOAD>>,
                        !.result = "error"]
              [] OTHER ->
                    [Unchanged EXCEPT
                        !.bucket = bucket \cup {<<id, "data">>, <<id, "enc">>},
                        !.documents = (id :> record) @@ documents,
                        !.logs = <<logDocumentUpload(userInfo, id, TRUE)>>,
                        !.steps = <<"save_data", "save_enc", DOCUMENT_UPLOAD, "set">>,
                        !.result = "ok",
                        !.returned = id]

\* variant of uploadDocument: the record takes the uploader's employee id
uploadDocument_ownEmployeeId(metadata, userInfo, fail) ==
    IF ~canUploadDocument(userInfo, metadata) THEN
        [Unchanged EXCEPT
            !.logs = <<logAccessDenied(userInfo, NoVal, "upload_document",
                                       "insufficient_permissions"),
                       logDocumentUpload(userInfo, NoVal, FALSE)>>,
            !.steps = <<ACCESS_DENIED, DOCUMENT_UPLOAD>>,
            !.result = "denied"]
    ELSE
        LET id == FreshId
            record == [ownerId |-> userInfo.uid,
                       employeeId |-> userInfo.employeeId,
                       hasSharedWith |-> TRUE, sharedWith |-> {},
                       isActive |-> TRUE, accessCount |-> 0, version |-> 1,
                       deletedBy |-> NoVal, deletedAt |-> NoTime]
            failed == <<logDocumentUpload(userInfo, NoVal, FALSE)>>
        IN  CASE fail = "save_data" ->
                    [Unchanged EXCEPT
                        !.logs = failed,
                        !.steps = <<DOCUMENT_UPLOAD>>,
                        !.result = "error"]
              [] fail = "save_enc" ->
                    [Unchanged EXCEPT
                        !.bucket = bucket \cup {<<id, "data">>},
                        !.logs = failed,
                        !.steps = <<"save_data", DOCUMENT_UPLOAD>>,
                        !.result = "error"]
              [] fail = "set" ->
                    [Unchanged EXCEPT
                        !.bucket = bucket \cup {<<id, "data">>, <<id, "enc">>},
                        !.logs = failed,
                        !.steps = <<"save_data", "save_enc", DOCUMENT_UPLOAD>>,
                        !.result = "error"]
              [] OTHER ->
                    [Unchanged EXCEPT
                        !.bucket = bucket \cup {<<id, "data">>, <<id, "enc">>},
                        !.documents = (id :> record) @@ documents,
                        !.logs = <<logDocumentUpload(userInfo, id, TRUE)>>,
                        !.steps = <<"save_data", "save_enc", "set", DOCUMENT_UPLOAD>>,
                        !.result = "ok",
                        !.returned = id]

\* DocumentService.uploadDocument, with StorageService.uploadDocument inlined.
\* fail: "save_data" (validation, encryption or the ciphertext save throws),
\* "save_enc" (the sidecar save throws), "set" (the metadata write throws).
uploadDocument(metadata, userInfo, fail) ==
    IF ~canUploadDocument(userInfo, metadata) THEN
        [Unchanged EXCEPT
            !.logs = <<logAccessDenied(userInfo, NoVal, "upload_document",
                                       "insufficient_permissions"),
                       logDocumentUpload(userInfo, NoVal, FALSE)>>,
            !.steps = <<ACCESS_DENIED, DOCUMENT_UPLOAD>>,
            !.result = "denied"]
    ELSE
        LET id == FreshId
            record == [ownerId |-> userInfo.uid,
                       employeeId |-> IF metadata.employeeId # NoVal
                                      THEN metadata.employeeId
                                      ELSE userInfo.employeeId,
                       hasSharedWith |-> TRUE, sharedWith |-> {},
                       isActive |-> TRUE, accessCount |-> 0, version |-> 1,
                       deletedBy |-> NoVal, deletedAt |-> NoTime]
            failed == <<logDocumentUpload(userInfo, NoVal, FALSE)>>
        IN  CASE fail = "save_data" ->
                    [Unchanged EXCEPT
                        !.logs = failed,
                        !.steps = <<DOCUMENT_UPLOAD>>,
                        !.result = "error"]
              [] fail = "save_enc" ->
                    [Unchanged EXCEPT
                        !.bucket = bucket \cup {<<id, "data">>},
                        !.logs = failed,
                        !.steps = <<"save_data", DOCUMENT_UPLOAD>>,
                        !.result = "error"]
              [] fail = "set" ->
                    [Unchanged EXCEPT
                        !.bucket = bucket \cup {<<id, "data">>, <<id, "enc">>},
                        !.logs = failed,
                        !.steps = <<"save_data", "save_enc", DOCUMENT_UPLOAD>>,
                        !.result = "error"]
              [] OTHER ->
                    [Unchanged EXCEPT
                        !.bucket = bucket \cup {<<id, "data">>, <<id, "enc">>},
                        !.documents = (id :> record) @@ documents,
                        !.logs = <<logDocumentUpload(userInfo, id, TRUE)>>,
                        !.steps = <<"save_data", "save_enc", "set", DOCUMENT_UPLOAD>>,
                        !.result = "ok",
                        !.returned = id]

\* DocumentService.downloadDocument, with StorageService.downloadDocument
\* inlined. fail: "storage" (the download, the key unwrap or the decryption
\* throws), "update" (the access-statistics update throws).
downloadDocument(documentId, userInfo, fail) ==
    LET failed == <<logDocumentDownload(userInfo, documentId, FALSE)>>
        documentMetadata == DocOf(documentId)
        access == canAccessDocument(userInfo, documentMetadata)
    IN  IF documentId \notin DOMAIN documents THEN
            [Unchanged EXCEPT
                !.logs = failed, !.steps = <<DOCUMENT_DOWNLOAD>>,
                !.result = "not_found"]
        ELSE IF access = "TypeError" THEN
            [Unchanged EXCEPT
                !.logs = failed, !.steps = <<DOCUMENT_DOWNLOAD>>,
                !.result = "error"]
        ELSE IF access # "true" THEN
            [Unchanged EXCEPT
                !.logs = <<logAccessDenied(userInfo, documentId, "download_document",
                                           "access_denied")>> \o failed,
                !.steps = <<ACCESS_DENIED, DOCUMENT_DOWNLOAD>>,
                !.result = "denied"]
        ELSE IF <<documentId, "data">> \notin bucket THEN
            [Unchanged EXCEPT
                !.logs = failed, !.steps = <<DOCUMENT_DOWNLOAD>>,
                !.result = "not_found"]
        ELSE IF <<documentId, "enc">> \notin bucket \/ fail = "storage" THEN
            [Unchanged EXCEPT
                !.logs = failed, !.steps = <<DOCUMENT_DOWNLOAD>>,
                !.result = "error"]
        ELSE IF fail = "update" THEN
            [Unchanged EXCEPT
                !.logs = failed, !.steps = <<"download", DOCUMENT_DOWNLOAD>>,
                !.result = "error"]
        ELSE
            [Unchanged EXCEPT
                !.documents = [documents EXCEPT
                                  ![documentId].accessCount = @ + 1],
                !.logs = <<logDocumentDownload(userInfo, documentId, TRUE)>>,
                !.steps = <<"download", "update", DOCUMENT_DOWNLOAD>>,
                !.result = "ok",
                !.returned = documentId]

\* variant of deleteDocument: the delete of an object that is not in the bucket
\* succeeds
deleteDocument_ignoreMissing(documentId, userInfo, fail) ==
    LET failed == <<logDocumentDelete(userInfo, documentId, FALSE)>>
        documentMetadata == DocOf(documentId)
        dataGone == fail \notin {"del_data", "del_both"}
        encGone == fail \notin {"del_enc", "del_both"}
        remaining == bucket \ ((IF dataGone THEN {<<documentId, "data">>} ELSE {})
                               \cup (IF encGone THEN {<<documentId, "enc">>} ELSE {}))
        effects == (IF dataGone THEN <<"del_data">> ELSE <<>>)
                   \o (IF encGone THEN <<"del_enc">> ELSE <<>>)
    IN  IF documentId \notin DOMAIN documents THEN
            [Unchanged EXCEPT
                !.logs = failed, !.steps = <<DOCUMENT_DELETE>>,
                !.result = "not_found"]
        ELSE IF ~canDeleteDocument(userInfo, documentMetadata) THEN
            [Unchanged EXCEPT
                !.logs = <<logAccessDenied(userInfo, documentId, "delete_document",
                                           "insufficient_permissions")>> \o failed,
                !.steps = <<ACCESS_DENIED, DOCUMENT_DELETE>>,
                !.result = "denied"]
        ELSE IF ~(dataGone /\ encGone) THEN
            [Unchanged EXCEPT
                !.bucket = remaining,
                !.logs = failed, !.steps = effects \o <<DOCUMENT_DELETE>>,
                !.result = "error"]
        ELSE IF fail = "update" THEN
            [Unchanged EXCEPT
                !.bucket = remaining,
                !.logs = failed, !.steps = effects \o <<DOCUMENT_DELETE>>,
                !.result = "error"]
        ELSE
            [Unchanged EXCEPT
                !.bucket = remaining,
                !.documents = [documents EXCEPT
                                  ![documentId].isActive = FALSE,
                                  ![documentId].deletedBy = userInfo.uid,
                                  ![documentId].deletedAt = now],
                !.logs = <<logDocumentDelete(userInfo, documentId, TRUE)>>,
                !.steps = effects \o <<"update", DOCUMENT_DELETE>>,
                !.result = "ok"]

\* DocumentService.deleteDocument, with StorageService.deleteDocument inlined:
\* the two objects are deleted by Promise.all, so each delete is issued and
\* the call throws when either fails (a missing object fails its delete).
\* fail: "del_data", "del_enc", "del_both" (those deletes throw), "update"
\* (the soft-delete write throws).
deleteDocument(documentId, userInfo, fail) ==
    LET failed == <<logDocumentDelete(userInfo, documentId, FALSE)>>
        documentMetadata == DocOf(documentId)
        dataGone == /\ <<documentId, "data">> \in bucket
                    /\ fail \notin {"del_data", "del_both"}
        encGone == /\ <<documentId, "enc">> \in bucket
                   /\ fail \notin {"del_enc", "del_both"}
        remaining == bucket \ ((IF dataGone THEN {<<documentId, "data">>} ELSE {})
                               \cup (IF encGone THEN {<<documentId, "enc">>} ELSE {}))
        effects == (IF dataGone THEN <<"del_data">> ELSE <<>>)
                   \o (IF encGone THEN <<"del_enc">> ELSE <<>>)
    IN  IF documentId \notin DOMAIN documents THEN
            [Unchanged EXCEPT
                !.logs = failed, !.steps = <<DOCUMENT_DELETE>>,
                !.result = "not_found"]
        ELSE IF ~canDeleteDocument(userInfo, documentMetadata) THEN
            [Unchanged EXCEPT
                !.logs = <<logAccessDenied(userInfo, documentId, "delete_document",
                                           "insufficient_permissions")>> \o failed,
                !.steps = <<ACCESS_DENIED, DOCUMENT_DELETE>>,
                !.result = "denied"]
        ELSE IF ~(dataGone /\ encGone) THEN
            [Unchanged EXCEPT
                !.bucket = remaining,
                !.logs = failed, !.steps = effects \o <<DOCUMENT_DELETE>>,
                !.result = "error"]
        ELSE IF fail = "update" THEN
            [Unchanged EXCEPT
                !.bucket = remaining,
                !.logs = failed, !.steps = effects \o <<DOCUMENT_DELETE>>,
                !.result = "error"]
        ELSE
            [Unchanged EXCEPT
                !.bucket = remaining,
                !.documents = [documents EXCEPT
                                  ![documentId].isActive = FALSE,
                                  ![documentId].deletedBy = userInfo.uid,
                                  ![documentId].deletedAt = now],
                !.logs = <<logDocumentDelete(userInfo, documentId, TRUE)>>,
                !.steps = effects \o <<"update", DOCUMENT_DELETE>>,
                !.result = "ok"]

\* the elements of an array
Elements(array) == {array[i] : i \in DOMAIN array}

RECURSIVE arrayUnion(_, _)
\* FieldValue.arrayUnion(...elements) on an array field: each element that
\* the array does not hold yet is appended
arrayUnion(array, elements) ==
    IF elements = <<>> THEN array
    ELSE arrayUnion(IF Head(elements) \in Elements(array) THEN array
                    ELSE Append(array, Head(elements)),
                    Tail(elements))

\* variant of shareDocument: the list is replaced by the ids of the request
shareDocument_replace(documentId, shareWith, userInfo, fail) ==
    LET documentMetadata == DocOf(documentId)
    IN  IF documentId \notin DOMAIN documents THEN
            [Unchanged EXCEPT !.result = "not_found"]
        ELSE IF ~canShareDocument(userInfo, documentMetadata) THEN
            [Unchanged EXCEPT !.result = "denied"]
        ELSE IF fail = "update" THEN
            [Unchanged EXCEPT !.result = "error"]
        ELSE
            [Unchanged EXCEPT
                !.documents = [documents EXCEPT
                                  ![documentId].hasSharedWith = TRUE,
                                  ![documentId].sharedWith = shareWith],
                !.steps = <<"update">>,
                !.result = "ok"]

\* DocumentService.shareDocument. fail: "update" (the arrayUnion write throws).
shareDocument(documentId, shareWith, userInfo, fail) ==
    LET documentMetadata == DocOf(documentId)
    IN  IF documentId \notin DOMAIN documents THEN
            [Unchanged EXCEPT !.result = "not_found"]
        ELSE IF ~canShareDocument(userInfo, documentMetadata) THEN
            [Unchanged EXCEPT !.result = "denied"]
        ELSE IF fail = "update" THEN
            [Unchanged EXCEPT !.result = "error"]
        ELSE
            [Unchanged EXCEPT
                !.documents = [documents EXCEPT
                                  ![documentId].hasSharedWith = TRUE,
                                  ![documentId].sharedWith = @ \cup shareWith],
                !.steps = <<"update">>,
                !.result = "ok"]

\* DocumentService.generateSignedUrl. fail: "sign" (getSignedUrl throws).
generateSignedUrl(documentId, userInfo, fail) ==
    LET documentMetadata == DocOf(documentId)
        access == canAccessDocument(userInfo, documentMetadata)
    IN  IF documentId \notin DOMAIN documents THEN
            [Unchanged EXCEPT !.result = "not_found"]
        ELSE IF access = "TypeError" THEN
            [Unchanged EXCEPT !.result = "error"]
        ELSE IF access # "true" THEN
            [Unchanged EXCEPT !.result = "denied"]
        ELSE IF fail = "sign" THEN
            [Unchanged EXCEPT !.result = "error"]
        ELSE
            [Unchanged EXCEPT
                !.logs = <<logDocumentDownload(userInfo, documentId, TRUE)>>,
                !.steps = <<"sign", DOCUMENT_DOWNLOAD>>,
                !.result = "ok",
                !.returned = documentId]

\* variant of the query: no isActive constraint
ActiveDocuments_withDeleted(employeeIdConstraints) ==
    {d \in DOMAIN documents :
        \A e \in employeeIdConstraints : documents[d].employeeId = e}

\* The query of DocumentService.listDocuments and getDocumentStatistics:
\* the active records that meet every equality constraint on employeeId
ActiveDocuments(employeeIdConstraints) ==
    {d \in DOMAIN documents :
        /\ documents[d].isActive
        /\ \A e \in employeeIdConstraints : documents[d].employeeId = e}

\* snapshot.forEach of listDocuments and getDocumentStatistics: for every
\* record of the snapshot the callback calls data.uploadedAt.toDate(), and
\* uploadedAt is the ISO string that upload wrote (the ?. of listDocuments
\* guards only an absent field): the call throws a TypeError, which the catch
\* rethrows. A snapshot without records is mapped without a call.
forEachOutcome(snapshot) == IF snapshot = {} THEN "ok" ELSE "error"

\* DocumentService.listDocuments (filters.employeeId is the only filter
\* modelled; an employee's own employeeId is a constraint even when it is
\* undefined). listed is the snapshot of the query.
listDocuments(userInfo, filters) ==
    LET snapshot == ActiveDocuments(
                       (IF userInfo.role = EMPLOYEE THEN {userInfo.employeeId} ELSE {})
                       \cup (IF filters.employeeId # NoVal /\ userInfo.role # EMPLOYEE
                             THEN {filters.employeeId} ELSE {}))
    IN  [Unchanged EXCEPT
            !.listed = snapshot,
            !.result = forEachOutcome(snapshot)]

\* DocumentService.getDocumentStatistics. listed is the snapshot of the query.
getDocumentStatistics(userInfo) ==
    LET snapshot == ActiveDocuments(
                       IF userInfo.role = EMPLOYEE THEN {userInfo.employeeId} ELSE {})
    IN  [Unchanged EXCEPT
            !.listed = snapshot,
            !.result = forEachOutcome(snapshot)]

\* ------------------------------------------------------------------------
\* Middleware (middleware/auth.js); next is the rest of the chain
\* ------------------------------------------------------------------------

\* authenticate: the token is valid; the account must be active
\* variant of authenticate: the isActive flag of the users record is not read
authenticate_anyAccount(uid, next) == next

authenticate(uid, next) ==
    IF ~users[uid].isActive THEN
        [Unchanged EXCEPT
            !.logs = <<logAccessDenied(verifyToken(uid), NoVal, "system_access",
                                       "account_disabled")>>,
            !.steps = <<ACCESS_DENIED>>,
            !.result = "account_disabled"]
    ELSE next

\* requireRole(requiredRoles); requireAdmin and requireHROrAdmin are its
\* instances for {ADMIN} and {HR, ADMIN}
requireRole(user, requiredRoles, endpoint, next) ==
    IF ~hasRole(user, requiredRoles) THEN
        [Unchanged EXCEPT
            !.logs = <<logAccessDenied(user, NoVal, endpoint, "insufficient_role")>>,
            !.steps = <<ACCESS_DENIED>>,
            !.result = "forbidden"]
    ELSE next

\* requireEmployeeAccess
requireEmployeeAccess(user, targetEmployeeId, next) ==
    IF hasRole(user, {ADMIN, HR}) THEN next
    ELSE IF /\ user.role = EMPLOYEE
            /\ targetEmployeeId # NoVal
            /\ targetEmployeeId # user.employeeId
    THEN
        [Unchanged EXCEPT
            !.logs = <<logAccessDenied(user, targetEmployeeId,
                                       "access_employee_resource", "not_own_resource")>>,
            !.steps = <<ACCESS_DENIED>>,
            !.result = "forbidden"]
    ELSE next

\* ------------------------------------------------------------------------
\* Admin routes (routes/admin.js), behind authenticate and requireAdmin
\* ------------------------------------------------------------------------

\* PUT /users/:userId/role with FirebaseService.updateUserRole inlined: the
\* new claims are {...userData.customClaims, role, updatedAt}, and the users
\* record has no customClaims field, so the claims keep no employeeId.
\* fail: "claims" (setCustomUserClaims throws), "store" (the users update
\* throws).
updateUserRole(user, userId, newRole, fail) ==
    CASE fail = "claims" ->
            [Unchanged EXCEPT
                !.logs = <<logRoleChange(user, userId, FALSE)>>,
                !.steps = <<ROLE_CHANGE>>,
                !.result = "error"]
      [] fail = "store" ->
            [Unchanged EXCEPT
                !.authClaims = [authClaims EXCEPT
                                   ![userId] = [role |-> newRole, employeeId |-> NoVal]],
                !.logs = <<logRoleChange(user, userId, FALSE)>>,
                !.steps = <<"claims", ROLE_CHANGE>>,
                !.result = "error"]
      [] OTHER ->
            [Unchanged EXCEPT
                !.authClaims = [authClaims EXCEPT
                                   ![userId] = [role |-> newRole, employeeId |-> NoVal]],
                !.users = [users EXCEPT ![userId].role = newRole],
                !.logs = <<logRoleChange(user, userId, TRUE)>>,
                !.steps = <<"claims", "store", ROLE_CHANGE>>,
                !.result = "ok"]

\* PUT /users/:userId/status with FirebaseService.disableUser inlined. The
\* enable branch evaluates admin.firestore.FieldValue, and admin is not
\* defined in routes/admin.js: it throws before the update is issued.
\* fail: "auth" (auth.updateUser throws), "store" (the users update throws).
updateUserStatus(user, userId, isActive, fail) ==
    IF isActive \/ fail \in {"auth", "store"} THEN
        [Unchanged EXCEPT !.result = "error"]
    ELSE
        [Unchanged EXCEPT
            !.users = [users EXCEPT ![userId].isActive = FALSE],
            !.logs = <<[eventType |-> ROLE_CHANGE, uid |-> user.uid,
                        resourceId |-> userId, success |-> TRUE,
                        action |-> "disable_user",
                        reason |-> "Admin status change"]>>,
            !.steps = <<"auth", "store", ROLE_CHANGE>>,
            !.result = "ok"]

\* the batch size of AuditService.cleanupOldLogs
BatchLimit == 500

\* variant of the query of cleanupOldLogs: entries at the cutoff are selected
OldLogs_atCutoff(retentionDays) ==
    LET cutoff == now - retentionDays
        old == {i \in 1..Len(auditLogs) : auditLogs[i].timestamp <= cutoff}
    IN  {i \in old : Cardinality({j \in old : j < i}) < BatchLimit}

\* AuditService.cleanupOldLogs: the entries the query selects, oldest first
\* and at most BatchLimit of them, as positions in the ledger
OldLogs(retentionDays) ==
    LET cutoff == now - retentionDays
        old == {i \in 1..Len(auditLogs) : auditLogs[i].timestamp < cutoff}
    IN  {i \in old : Cardinality({j \in old : j < i}) < BatchLimit}

RECURSIVE WithoutRange(_, _, _, _)
\* the entries of the ledger at the positions lo..hi that are not in gone, in
\* order (the range is halved so that long ledgers need little nesting)
WithoutRange(ledger, gone, lo, hi) ==
    IF lo > hi THEN <<>>
    ELSE IF lo = hi THEN (IF lo \in gone THEN <<>> ELSE <<ledger[lo]>>)
    ELSE LET mid == (lo + hi) \div 2
         IN  WithoutRange(ledger, gone, lo, mid) \o WithoutRange(ledger, gone, mid + 1, hi)

\* the ledger without the entries at the positions in gone, from position i on
Without(ledger, gone, i) == WithoutRange(ledger, gone, i, Len(ledger))

\* AuditService.cleanupOldLogs: the selected entries are deleted in one batch
\* and their number is returned
cleanupOldLogs(retentionDays) ==
    [kept |-> Without(auditLogs, OldLogs(retentionDays), 1),
     deletedCount |-> Cardinality(OldLogs(retentionDays))]

\* variant of the cleanup route without the floor on the retention period
cleanupLogs_noFloor(user, retentionDays, fail) ==
    IF fail = "commit" THEN
        [Unchanged EXCEPT !.result = "error"]
    ELSE
        [Unchanged EXCEPT
            !.kept = cleanupOldLogs(retentionDays).kept,
            !.logs = <<[eventType |-> ROLE_CHANGE, uid |-> user.uid,
                        resourceId |-> NoVal, success |-> TRUE,
                        action |-> "cleanup_audit_logs", reason |-> NoVal]>>,
            !.steps = <<"cleanup", ROLE_CHANGE>>,
            !.result = "ok"]

\* POST /cleanup-logs. fail: "commit" (the query or the batch commit throws).
cleanupLogs(user, retentionDays, fail) ==
    IF retentionDays < RetentionFloor THEN
        [Unchanged EXCEPT !.result = "bad_request"]
    ELSE IF fail = "commit" THEN
        [Unchanged EXCEPT !.result = "error"]
    ELSE
        [Unchanged EXCEPT
            !.kept = cleanupOldLogs(retentionDays).kept,
            !.logs = <<[eventType |-> ROLE_CHANGE, uid |-> user.uid,
                        resourceId |-> NoVal, success |-> TRUE,
                        action |-> "cleanup_audit_logs", reason |-> NoVal]>>,
            !.steps = <<"cleanup", ROLE_CHANGE>>,
            !.result = "ok"]

\* GET /audit-logs, GET /audit-statistics, POST /audit-export: reads only
auditRead(user) ==
    [Unchanged EXCEPT !.result = "ok"]

\* ------------------------------------------------------------------------
\* Encryption service (services/encryptionService.js)
\* ------------------------------------------------------------------------

\* the functions of the crypto module of Node.js that the service calls
\* and the module has; it has neither createCipherGCM nor createDecipherGCM
NodeCrypto == {"randomBytes", "randomUUID", "createHash",
               "createCipheriv", "createDecipheriv"}

\* file contents, as byte sequences
Plaintexts == {<<72>>, <<72, 82>>, <<0, 255, 72>>}

\* the data encryption key and the nonce of one encryption, as single bytes
Dek == 41
Iv == 7

\* AES-256-GCM as a keystream added bytewise, with a tag over the plaintext
Seal(plaintext) == [i \in DOMAIN plaintext |-> (plaintext[i] + Dek + Iv) % 256]
Open(ciphertext) == [i \in DOMAIN ciphertext |-> (ciphertext[i] + 512 - Dek - Iv) % 256]
Tag(plaintext) == <<Len(plaintext), Dek>> \o plaintext

NoPayload ==
    [encryptedData |-> <<>>, encryptedDEK |-> NoVal, iv |-> NoVal,
     authTag |-> <<>>, algorithm |-> NoVal]

\* EncryptionService.encryptData: the call of crypto.createCipherGCM throws a
\* TypeError when crypto has no such function; the catch turns every error
\* into 'Encryption failed'.
encryptData(data) ==
    IF "createCipherGCM" \notin NodeCrypto
    THEN [thrown |-> TRUE, error |-> "Encryption failed", payload |-> NoPayload]
    ELSE [thrown |-> FALSE, error |-> NoVal,
          payload |-> [encryptedData |-> Seal(data), encryptedDEK |-> "wrapped",
                       iv |-> "iv", authTag |-> Tag(data),
                       algorithm |-> "aes-256-gcm"]]

\* variant of decryptData: the data are deciphered without any check
decryptData_unchecked(encryptedPayload) ==
    [thrown |-> FALSE, error |-> NoVal,
     data |-> Open(encryptedPayload.encryptedData)]

\* EncryptionService.decryptData: likewise with crypto.createDecipherGCM; a
\* tag that does not fit the data makes decipher.final() throw.
decryptData(encryptedPayload) ==
    IF "createDecipherGCM" \notin NodeCrypto
       \/ encryptedPayload.authTag # Tag(Open(encryptedPayload.encryptedData))
    THEN [thrown |-> TRUE, error |-> "Decryption failed", data |-> <<>>]
    ELSE [thrown |-> FALSE, error |-> NoVal,
          data |-> Open(encryptedPayload.encryptedData)]

\* the envelope a correct AES-256-GCM encryption of the data leaves in the
\* bucket: the ciphertext object and the .enc sidecar
Envelope(data) ==
    [encryptedData |-> Seal(data), encryptedDEK |-> "wrapped", iv |-> "iv",
     authTag |-> Tag(data), algorithm |-> "aes-256-gcm"]

\* how StorageService.uploadDocument of the data and downloadDocument of an
\* envelope end when the bucket and the metadata store work: as the
\* encryption, or the decryption, does
EncryptOutcome(data) == IF encryptData(data).thrown THEN "save_data" ELSE "none"
DecryptOutcome(encryptedPayload) ==
    IF decryptData(encryptedPayload).thrown THEN "storage" ELSE "none"

\* ------------------------------------------------------------------------
\* Auth routes (routes/auth.js)
\* ------------------------------------------------------------------------

\* POST /login with a valid token: a disabled account is answered 403 after
\* the failed login is logged; otherwise the login is logged. (The lastLogin
\* field that updateLastLogin writes is not part of the users records here.)
login(uid) ==
    IF ~users[uid].isActive THEN
        [Unchanged EXCEPT
            !.logs = <<logUserLogin(verifyToken(uid), FALSE)>>,
            !.steps = <<USER_LOGIN>>,
            !.result = "account_disabled"]
    ELSE
        [Unchanged EXCEPT
            !.logs = <<logUserLogin(verifyToken(uid), TRUE)>>,
            !.steps = <<USER_LOGIN>>,
            !.result = "ok"]

\* ------------------------------------------------------------------------
\* Requests: the response of each route, for a request that enters through
\* the route (middleware chain, then the service method or the handler) or
\* at the service method itself
\* ------------------------------------------------------------------------

Entries == {"route", "service"}

UploadFailures == {"none", "save_data", "save_enc", "set"}
DownloadFailures == {"none", "storage", "update"}
DeleteFailures == {"none", "del_data", "del_enc", "del_both", "update"}
ShareFailures == {"none", "update"}
SignFailures == {"none", "sign"}
RoleFailures == {"none", "claims", "store"}
StatusFailures == {"none", "auth", "store"}
CleanupFailures == {"none", "commit"}

\* the principals a share request can name
ShareTargets == {"u3"}
\* the principals a role change and a status change can name
RoleTargets == {"u2"}
StatusTargets == {"u3"}
\* retention periods a cleanup request can name, in days
Retentions == {30, 365}
\* the employee ids a request can carry (or none)
RequestEmployeeIds == EmployeeIds \cup {NoVal}
\* the read-only admin endpoints
AuditEndpoints == {"GET /audit-logs", "GET /audit-statistics", "POST /audit-export"}

\* POST /api/documents/upload
uploadRequest(uid, via, employeeId, fail) ==
    LET service == uploadDocument([employeeId |-> employeeId], verifyToken(uid), fail)
    IN  IF via = "route"
        THEN authenticate(uid,
                 requireRole(verifyToken(uid), {HR, ADMIN}, "POST /upload", service))
        ELSE service

\* GET /api/documents/:documentId
downloadRequest(uid, via, documentId, fail) ==
    LET service == downloadDocument(documentId, verifyToken(uid), fail)
    IN  IF via = "route" THEN authenticate(uid, service) ELSE service

\* DELETE /api/documents/:documentId
deleteRequest(uid, via, documentId, fail) ==
    LET service == deleteDocument(documentId, verifyToken(uid), fail)
    IN  IF via = "route"
        THEN authenticate(uid,
                 requireRole(verifyToken(uid), {HR, ADMIN}, "DELETE /:documentId",
                             service))
        ELSE service

\* documentValidators.share: between 1 and 20 ids (all of uuid form)
ShareCap == 20
shareValidator(shareWith) ==
    Cardinality(shareWith) >= 1 /\ Cardinality(shareWith) <= ShareCap

\* POST /api/documents/:documentId/share
shareRequest(uid, via, documentId, shareWith, fail) ==
    LET service == shareDocument(documentId, shareWith, verifyToken(uid), fail)
    IN  IF via = "route"
        THEN authenticate(uid, IF ~shareValidator(shareWith)
                               THEN [Unchanged EXCEPT !.result = "bad_request"]
                               ELSE service)
        ELSE service

\* POST /api/documents/:documentId/signed-url
\* documentValidators.signedUrl with validateRequest: the body of a
\* signed-URL request holds any of the fields action and expirationMinutes.
\* A value outside the schema ends the request with 400; otherwise the body
\* is replaced by the validated value, defaults filled in.
MaxExpirationMinutes == 1440
DefaultExpirationMinutes == 15
MsPerMinute == 60000

\* variant of signedUrlValidator: without the upper limit on expirationMinutes
signedUrlValidator_noMax(body) ==
    LET hasAction == "action" \in DOMAIN body
        hasMinutes == "expirationMinutes" \in DOMAIN body
    IN  [error |-> \/ hasAction /\ body.action \notin {"read", "write"}
                   \/ hasMinutes /\ body.expirationMinutes < 1,
         value |-> [action |-> IF hasAction THEN body.action ELSE "read",
                    expirationMinutes |-> IF hasMinutes THEN body.expirationMinutes
                                          ELSE DefaultExpirationMinutes]]

signedUrlValidator(body) ==
    LET hasAction == "action" \in DOMAIN body
        hasMinutes == "expirationMinutes" \in DOMAIN body
    IN  [error |-> \/ hasAction /\ body.action \notin {"read", "write"}
                   \/ hasMinutes /\ \/ body.expirationMinutes < 1
                                    \/ body.expirationMinutes > MaxExpirationMinutes,
         value |-> [action |-> IF hasAction THEN body.action ELSE "read",
                    expirationMinutes |-> IF hasMinutes THEN body.expirationMinutes
                                          ELSE DefaultExpirationMinutes]]

\* options.action || 'read' and options.expirationMinutes || 15: the default
\* replaces a field that is absent or falsy ('' or 0)
actionOrRead(options) ==
    IF "action" \in DOMAIN options /\ options.action # "" THEN options.action
    ELSE "read"

minutesOr15(options) ==
    IF "expirationMinutes" \in DOMAIN options /\ options.expirationMinutes # 0
    THEN options.expirationMinutes
    ELSE 15

\* StorageService.generateSignedUrl: the V4 signed URL of bucket.file(fileName),
\* issued at dateNow (milliseconds): the object, the action and the expiry it
\* is signed for
getSignedUrl(fileName, options, dateNow) ==
    [file |-> fileName,
     action |-> actionOrRead(options),
     expires |-> dateNow + minutesOr15(options) * 60 * 1000]

\* DocumentService.generateSignedUrl: the URL it asks the storage service
\* for, for the ciphertext object named in the document's record
signedUrl(documentId, options, dateNow) ==
    getSignedUrl(<<documentId, "data">>,
                 [action |-> actionOrRead(options),
                  expirationMinutes |-> minutesOr15(options)],
                 dateNow)

signedUrlRequest(uid, via, documentId, fail) ==
    LET service == generateSignedUrl(documentId, verifyToken(uid), fail)
    IN  IF via = "route" THEN authenticate(uid, service) ELSE service

\* GET /api/documents
listRequest(uid, via, employeeId) ==
    LET service == listDocuments(verifyToken(uid), [employeeId |-> employeeId])
    IN  IF via = "route" THEN authenticate(uid, service) ELSE service

\* GET /api/documents/statistics. The router registers GET /:documentId
\* before it, so a request that enters through the route is answered by the
\* documentId validator of that route (400); entered at its own chain it runs
\* requireEmployeeAccess and then DocumentService.getDocumentStatistics.
statisticsRequest(uid, via, employeeId) ==
    IF via = "route"
    THEN authenticate(uid, [Unchanged EXCEPT !.result = "bad_request"])
    ELSE requireEmployeeAccess(verifyToken(uid), employeeId,
                               getDocumentStatistics(verifyToken(uid)))

\* variant of the admin chain: requireHROrAdmin in the place of requireAdmin
adminRoute_hrToo(uid, endpoint, handler) ==
    authenticate(uid, requireRole(verifyToken(uid), {HR, ADMIN}, endpoint, handler))

\* router.use(authenticate); router.use(requireAdmin): the chain in front of
\* every admin handler
adminRoute(uid, endpoint, handler) ==
    authenticate(uid, requireRole(verifyToken(uid), {ADMIN}, endpoint, handler))

\* PUT /api/admin/users/:userId/role
updateRoleRequest(uid, userId, newRole, fail) ==
    adminRoute(uid, "PUT /users/:userId/role",
               updateUserRole(verifyToken(uid), userId, newRole, fail))

\* PUT /api/admin/users/:userId/status
updateStatusRequest(uid, userId, isActive, fail) ==
    adminRoute(uid, "PUT /users/:userId/status",
               updateUserStatus(verifyToken(uid), userId, isActive, fail))

\* GET /api/admin/audit-logs, GET /api/admin/audit-statistics,
\* POST /api/admin/audit-export
auditReadRequest(uid, endpoint) ==
    adminRoute(uid, endpoint, auditRead(verifyToken(uid)))

\* POST /api/admin/cleanup-logs
cleanupRequest(uid, retentionDays, fail) ==
    adminRoute(uid, "POST /cleanup-logs",
               cleanupLogs(verifyToken(uid), retentionDays, fail))

\* ------------------------------------------------------------------------
\* Actions
\* ------------------------------------------------------------------------

RECURSIVE WriteAll(_, _, _, _)
\* the logEvent calls of a response from the i-th on, in call order
WriteAll(ledger, logs, writeOk, i) ==
    IF i > Len(logs) THEN ledger
    ELSE WriteAll(logEvent(ledger, logs[i], writeOk[i]), logs, writeOk, i + 1)

\* the ledger after a response whose i-th audit write succeeds iff writeOk[i]
LedgerAfter(resp, writeOk) == WriteAll(resp.kept, resp.logs, writeOk, 1)

\* What the caller of the request gets when its i-th logEvent call completes
\* as logEventResult(writeOk[i]): the handlers await every audit call, so a
\* call that threw would end the request with that error.
Returned(resp, writeOk) ==
    IF \E i \in DOMAIN resp.logs : logEventResult(writeOk[i]).thrown
    THEN "error"
    ELSE resp.result

\* The request completes: the stores take the values of the response and the
\* events are written by logEvent in call order. While the audit store is up
\* every write succeeds, and a request that logs runs only while the ledger
\* holds fewer than MaxAudit entries; while it is down every write fails.
Effects(resp) ==
    /\ (auditUp /\ resp.logs # <<>>) => Len(auditLogs) < MaxAudit
    /\ documents' = resp.documents
    /\ bucket' = resp.bucket
    /\ users' = resp.users
    /\ authClaims' = resp.authClaims
    /\ auditLogs' = LedgerAfter(resp, [i \in 1..Len(resp.logs) |-> auditUp])
    /\ UNCHANGED <<auditUp, now, inflight, limiter>>

Complete(resp) ==
    /\ Effects(resp)
    /\ UNCHANGED memo

Upload(uid, via, employeeId, fail) ==
    /\ canUploadDocument(verifyToken(uid), [employeeId |-> employeeId]) => FreshIds # {}
    /\ Complete(uploadRequest(uid, via, employeeId, fail))

Download(uid, via, documentId, fail) ==
    /\ downloadRequest(uid, via, documentId, fail).result = "ok"
          => documents[documentId].accessCount < MaxAccess
    /\ Complete(downloadRequest(uid, via, documentId, fail))

Delete(uid, via, documentId, fail) ==
    Complete(deleteRequest(uid, via, documentId, fail))

Share(uid, via, documentId, shareWith, fail) ==
    Complete(shareRequest(uid, via, documentId, shareWith, fail))

\* POST /:documentId/signed-url with its validators: the result of the
\* request and, when a URL is issued, the URL
issueSignedUrl(uid, documentId, body, fail, dateNow) ==
    LET checked == signedUrlValidator(body)
        resp == signedUrlRequest(uid, "route", documentId, fail)
    IN  IF checked.error
        THEN [result |-> "bad_request", issued |-> FALSE,
              url |-> getSignedUrl(<<NoVal, NoVal>>, [action |-> ""], 0)]
        ELSE [result |-> resp.result, issued |-> resp.result = "ok",
              url |-> signedUrl(documentId,
                                [action |-> checked.value.action,
                                 expirationMinutes |-> checked.value.expirationMinutes],
                                dateNow)]

SignedUrl(uid, via, documentId, fail) ==
    Complete(signedUrlRequest(uid, via, documentId, fail))

List(uid, via, employeeId) ==
    Complete(listRequest(uid, via, employeeId))

Statistics(uid, via, employeeId) ==
    Complete(statisticsRequest(uid, via, employeeId))

UpdateRole(uid, userId, newRole, fail) ==
    Complete(updateRoleRequest(uid, userId, newRole, fail))

UpdateStatus(uid, userId, isActive, fail) ==
    Complete(updateStatusRequest(uid, userId, isActive, fail))

AuditRead(uid, endpoint) ==
    Complete(auditReadRequest(uid, endpoint))

Cleanup(uid, retentionDays, fail) ==
    Complete(cleanupRequest(uid, retentionDays, fail))

\* time passes
Tick ==
    /\ now < MaxTicks * TickDays
    /\ now' = now + TickDays
    /\ UNCHANGED <<authClaims, users, documents, bucket, auditLogs, auditUp, memo, inflight, limiter>>

\* ------------------------------------------------------------------------
\* Specification
\* ------------------------------------------------------------------------

\* the two requests that can be in flight together
Slots == {"r1", "r2"}

\* no request in flight
NoRequests ==
    [r \in Slots |->
        [op |-> "none", uid |-> NoVal, documentId |-> NoVal, shareWith |-> {},
         pc |-> "none", snapshot |-> NoDoc, dataDone |-> FALSE, encDone |-> FALSE,
         failed |-> FALSE, result |-> "none"]]

\* a rateLimit instance that no request has passed
NoLimiter ==
    [options |-> [maxRequests |-> 0, windowMs |-> 0],
     requests |-> <<>>, served |-> <<>>, clock |-> 0]

\* no decision recorded
NoMemo ==
    [check |-> "none",
     principal |-> [uid |-> NoVal, role |-> NoVal, employeeId |-> NoVal],
     document |-> NoDoc,
     decision |-> NoVal]

\* Three principals created through POST /create-user (every one has a role
\* and an employee id), empty stores, and an audit store that is up or down.
Init ==
    /\ authClaims = [u \in Uids |->
                        CASE u = "u1" -> [role |-> ADMIN, employeeId |-> "E0"]
                          [] u = "u2" -> [role |-> HR, employeeId |-> "E2"]
                          [] OTHER -> [role |-> EMPLOYEE, employeeId |-> "E1"]]
    /\ users = [u \in Uids |->
                   [role |-> CASE u = "u1" -> ADMIN [] u = "u2" -> HR [] OTHER -> EMPLOYEE,
                    isActive |-> TRUE]]
    /\ documents = <<>>
    /\ bucket = {}
    /\ auditLogs = <<>>
    /\ auditUp \in BOOLEAN
    /\ now = 0
    /\ memo = NoMemo
    /\ inflight = NoRequests
    /\ limiter = NoLimiter

Next ==
    \/ \E uid \in Uids, via \in Entries, e \in RequestEmployeeIds,
          fail \in UploadFailures :
          Upload(uid, via, e, fail)
    \/ \E uid \in Uids, via \in Entries, d \in DocIds, fail \in DownloadFailures :
          Download(uid, via, d, fail)
    \/ \E uid \in Uids, via \in Entries, d \in DocIds, fail \in DeleteFailures :
          Delete(uid, via, d, fail)
    \/ \E uid \in Uids, via \in Entries, d \in DocIds,
          t \in SUBSET ShareTargets \ {{}}, fail \in ShareFailures :
          Share(uid, via, d, t, fail)
    \/ \E uid \in Uids, via \in Entries, d \in DocIds, fail \in SignFailures :
          SignedUrl(uid, via, d, fail)
    \/ \E uid \in Uids, via \in Entries, e \in RequestEmployeeIds :
          List(uid, via, e)
    \/ \E uid \in Uids, via \in Entries, e \in RequestEmployeeIds :
          Statistics(uid, via, e)
    \/ \E uid \in Uids, t \in RoleTargets, r \in Roles, fail \in RoleFailures :
          UpdateRole(uid, t, r, fail)
    \/ \E uid \in Uids, t \in StatusTargets, a \in BOOLEAN, fail \in StatusFailures :
          UpdateStatus(uid, t, a, fail)
    \/ \E uid \in Uids, endpoint \in AuditEndpoints :
          AuditRead(uid, endpoint)
    \/ \E uid \in Uids, r \in Retentions, fail \in CleanupFailures :
          Cleanup(uid, r, fail)
    \/ Tick

Spec == Init /\ [][Next]_vars

\* ------------------------------------------------------------------------
\* The access checks on inputs drawn from bounded sets
\* ------------------------------------------------------------------------

Checks == {"upload", "read", "delete", "share"}

\* The decision a handler takes on a check: it denies when the check is falsy
\* (if (!this.canXDocument(..))), and the request fails when the check throws.
Decision(check, userInfo, documentMetadata) ==
    CASE check = "upload" ->
            IF canUploadDocument(userInfo, [employeeId |-> NoVal]) THEN "allow" ELSE "deny"
      [] check = "read" ->
            LET access == canAccessDocument(userInfo, documentMetadata)
            IN  IF access = "true" THEN "allow"
                ELSE IF access \in {"false", NoVal} THEN "deny"
                ELSE "throw"
      [] check = "delete" ->
            IF canDeleteDocument(userInfo, documentMetadata) THEN "allow" ELSE "deny"
      [] OTHER ->
            IF canShareDocument(userInfo, documentMetadata) THEN "allow" ELSE "deny"

\* The request completes and the decision it was given is recorded with the
\* attributes of the principal and of the document it was taken on.
Record(resp, check, userInfo, documentMetadata) ==
    /\ Effects(resp)
    /\ memo' = [check |-> check, principal |-> userInfo,
                document |-> documentMetadata,
                decision |-> IF resp.result = "denied" THEN "deny" ELSE "allow"]

DecideUpload(uid, employeeId, fail) ==
    /\ canUploadDocument(verifyToken(uid), [employeeId |-> employeeId]) => FreshIds # {}
    /\ Record(uploadDocument([employeeId |-> employeeId], verifyToken(uid), fail),
              "upload", verifyToken(uid), NoDoc)

DecideDownload(uid, documentId, fail) ==
    /\ documentId \in DOMAIN documents
    /\ downloadDocument(documentId, verifyToken(uid), fail).result = "ok"
          => documents[documentId].accessCount < MaxAccess
    /\ Record(downloadDocument(documentId, verifyToken(uid), fail),
              "read", verifyToken(uid), documents[documentId])

DecideSignedUrl(uid, documentId, fail) ==
    /\ documentId \in DOMAIN documents
    /\ Record(generateSignedUrl(documentId, verifyToken(uid), fail),
              "read", verifyToken(uid), documents[documentId])

DecideDelete(uid, documentId, fail) ==
    /\ documentId \in DOMAIN documents
    /\ Record(deleteDocument(documentId, verifyToken(uid), fail),
              "delete", verifyToken(uid), documents[documentId])

DecideShare(uid, documentId, shareWith, fail) ==
    /\ documentId \in DOMAIN documents
    /\ Record(shareDocument(documentId, shareWith, verifyToken(uid), fail),
              "share", verifyToken(uid), documents[documentId])

\* claims of the third principal: the role claim and the employee id are
\* each present or missing
DecideClaims ==
    {[role |-> r, employeeId |-> e] : r \in Roles \cup {NoVal}, e \in {"E1", NoVal}}

\* records of the one document: any owner, any subject (or none), with or
\* without a sharing list. The audit store is down in these runs: what varies
\* between two requests is the document, the claims, the bucket and the clock.
DecideDocuments ==
    {[ownerId |-> o, employeeId |-> e, hasSharedWith |-> h, sharedWith |-> w,
      isActive |-> TRUE, accessCount |-> 0, version |-> 1, deletedBy |-> NoVal,
     deletedAt |-> NoTime] :
        o \in {"u2", "u3"}, e \in {"E1", "E2", NoVal},
        h \in BOOLEAN, w \in SUBSET ShareTargets}

InitDecide ==
    /\ \E c \in DecideClaims :
          authClaims = [u \in Uids |->
                           CASE u = "u1" -> [role |-> ADMIN, employeeId |-> "E0"]
                             [] u = "u2" -> [role |-> HR, employeeId |-> "E2"]
                             [] OTHER -> c]
    /\ users = [u \in Uids |->
                   [role |-> IF authClaims[u].role = NoVal THEN EMPLOYEE
                             ELSE authClaims[u].role,
                    isActive |-> TRUE]]
    /\ \E r \in DecideDocuments :
          /\ r.hasSharedWith \/ r.sharedWith = {}
          /\ documents = ("d1" :> r)
    /\ bucket = {<<"d1", "data">>, <<"d1", "enc">>}
    /\ auditLogs = <<>>
    /\ auditUp = FALSE
    /\ now = 0
    /\ memo = NoMemo
    /\ inflight = NoRequests
    /\ limiter = NoLimiter

NextDecide ==
    \/ \E uid \in Uids, e \in RequestEmployeeIds, fail \in {"none", "set"} :
          DecideUpload(uid, e, fail)
    \/ \E uid \in Uids, d \in DocIds, fail \in {"none", "storage"} :
          DecideDownload(uid, d, fail)
    \/ \E uid \in Uids, d \in DocIds, fail \in SignFailures :
          DecideSignedUrl(uid, d, fail)
    \/ \E uid \in Uids, d \in DocIds, fail \in {"none", "update"} :
          DecideDelete(uid, d, fail)
    \/ \E uid \in Uids, d \in DocIds, t \in SUBSET ShareTargets \ {{}},
          fail \in ShareFailures :
          DecideShare(uid, d, t, fail)
    \/ Tick

SpecDecide == InitDecide /\ [][NextDecide]_vars

\* ------------------------------------------------------------------------
\* Specification of the retention cleanup on long ledgers: cleanupOldLogs is
\* called directly on ledgers of up to a batch and more
\* ------------------------------------------------------------------------

\* numbers of entries written on day 0
OldCounts == {0, 1, 499, 500, 502, 1001}

\* days that pass in one step
PassDays == {30, 365}

\* entries logged on one day after day 0
MaxSameDay == 1

LoginEvent == logUserLogin(verifyToken("u3"), TRUE)

\* logEvent writes an entry with the time of the call
LogEntry ==
    /\ Cardinality({i \in DOMAIN auditLogs : auditLogs[i].timestamp = now}) < MaxSameDay
    /\ auditLogs' = logEvent(auditLogs, LoginEvent, TRUE)
    /\ UNCHANGED <<authClaims, users, documents, bucket, auditUp, now, memo, inflight, limiter>>

\* time passes, twice at most
Pass(days) ==
    /\ now \in {0} \cup PassDays
    /\ now' = now + days
    /\ UNCHANGED <<authClaims, users, documents, bucket, auditLogs, auditUp, memo, inflight, limiter>>

\* cleanupOldLogs(retentionDays) runs to its end
CleanupOldLogs(retentionDays) ==
    /\ auditLogs' = cleanupOldLogs(retentionDays).kept
    /\ UNCHANGED <<authClaims, users, documents, bucket, auditUp, now, memo, inflight, limiter>>

InitCleanup ==
    /\ authClaims = [u \in Uids |->
                        CASE u = "u1" -> [role |-> ADMIN, employeeId |-> "E0"]
                          [] u = "u2" -> [role |-> HR, employeeId |-> "E2"]
                          [] OTHER -> [role |-> EMPLOYEE, employeeId |-> "E1"]]
    /\ users = [u \in Uids |->
                   [role |-> CASE u = "u1" -> ADMIN [] u = "u2" -> HR [] OTHER -> EMPLOYEE,
                    isActive |-> TRUE]]
    /\ documents = <<>>
    /\ bucket = {}
    /\ now = 0
    /\ \E n \in OldCounts :
          auditLogs = [i \in 1..n |-> [eventType |-> LoginEvent.eventType,
                                       timestamp |-> 0,
                                       uid |-> LoginEvent.uid,
                                       resourceId |-> LoginEvent.resourceId,
                                       success |-> LoginEvent.success,
                                       action |-> LoginEvent.action,
                                       reason |-> LoginEvent.reason]]
    /\ auditUp = TRUE
    /\ memo = NoMemo
    /\ inflight = NoRequests
    /\ limiter = NoLimiter

NextCleanup ==
    \/ LogEntry
    \/ \E days \in PassDays : Pass(days)
    \/ \E r \in Retentions : CleanupOldLogs(r)

SpecCleanup == InitCleanup /\ [][NextCleanup]_vars

\* ------------------------------------------------------------------------
\* Specification of concurrent requests: two share or delete requests run
\* step by step, every await of the handlers being a point where the other
\* request can run. The audit store is down, so no entry is written.
\* ------------------------------------------------------------------------

\* a request that entered its handler
Started(op, uid, documentId, shareWith) ==
    [op |-> op, uid |-> uid, documentId |-> documentId, shareWith |-> shareWith,
     pc |-> "read", snapshot |-> NoDoc, dataDone |-> FALSE, encDone |-> FALSE,
     failed |-> FALSE, result |-> "none"]

\* the handler throws: it is over with this result
Thrown(q, result) == [q EXCEPT !.pc = "done", !.result = result]

\* docRef.get(): the handler reads the record
ReadStep(w) ==
    LET q == w.q
    IN  IF q.documentId \notin DOMAIN w.documents
        THEN [w EXCEPT !.q = Thrown(q, "not_found")]
        ELSE [w EXCEPT !.q = [q EXCEPT !.snapshot = w.documents[q.documentId],
                                       !.pc = "check"]]

\* canShareDocument / canDeleteDocument on the record that was read
CheckStep(w) ==
    LET q == w.q
        allowed == IF q.op = "share"
                   THEN canShareDocument(verifyToken(q.uid), q.snapshot)
                   ELSE canDeleteDocument(verifyToken(q.uid), q.snapshot)
    IN  IF ~allowed THEN [w EXCEPT !.q = Thrown(q, "denied")]
        ELSE [w EXCEPT !.q = [q EXCEPT !.pc = IF q.op = "share" THEN "update"
                                              ELSE "storage"]]

\* StorageService.deleteDocument: one of the two file.delete() calls that
\* Promise.all has issued is served by the bucket; it fails when the object
\* is not there. When both are served the handler goes on to the update, or
\* throws if either failed.
StorageStep(w, kind) ==
    LET q == w.q
        object == <<q.documentId, kind>>
        served == [q EXCEPT !.dataDone = @ \/ kind = "data",
                            !.encDone = @ \/ kind = "enc",
                            !.failed = @ \/ object \notin w.bucket]
        after == IF ~(served.dataDone /\ served.encDone) THEN served
                 ELSE IF served.failed THEN Thrown(served, "error")
                 ELSE [served EXCEPT !.pc = "update"]
    IN  [w EXCEPT !.bucket = @ \ {object}, !.q = after]

\* docRef.update(): arrayUnion of the share, or the soft delete
UpdateStep(w) ==
    LET q == w.q
        d == q.documentId
    IN  [w EXCEPT
            !.documents =
                IF q.op = "share"
                THEN [@ EXCEPT ![d].hasSharedWith = TRUE,
                               ![d].sharedWith = @ \cup q.shareWith]
                ELSE [@ EXCEPT ![d].isActive = FALSE,
                               ![d].deletedBy = q.uid,
                               ![d].deletedAt = now],
            !.q = [q EXCEPT !.pc = "done", !.result = "ok"]]

\* the world of request r: the two stores and the request
World(r) == [documents |-> documents, bucket |-> bucket, q |-> inflight[r]]

\* request r has taken a step that led to the world w
Stepped(r, w) ==
    /\ documents' = w.documents
    /\ bucket' = w.bucket
    /\ inflight' = [inflight EXCEPT ![r] = w.q]
    /\ UNCHANGED <<authClaims, users, auditLogs, auditUp, now, memo, limiter>>

Read(r) == inflight[r].pc = "read" /\ Stepped(r, ReadStep(World(r)))

Check(r) == inflight[r].pc = "check" /\ Stepped(r, CheckStep(World(r)))

DeleteObject(r, kind) ==
    /\ inflight[r].pc = "storage"
    /\ IF kind = "data" THEN ~inflight[r].dataDone ELSE ~inflight[r].encDone
    /\ Stepped(r, StorageStep(World(r), kind))

Update(r) == inflight[r].pc = "update" /\ Stepped(r, UpdateStep(World(r)))

\* the records and the objects of two documents that hr u2 has uploaded
ConcurrentDocuments ==
    [d \in {DocNames[1], DocNames[2]} |->
        [ownerId |-> "u2",
         employeeId |-> IF d = DocNames[1] THEN "E1" ELSE "E2",
         hasSharedWith |-> TRUE, sharedWith |-> {},
         isActive |-> TRUE, accessCount |-> 0, version |-> 1,
         deletedBy |-> NoVal, deletedAt |-> NoTime]]

ConcurrentBucket == {DocNames[1], DocNames[2]} \X ObjectKinds

\* the requests a slot can hold
ConcurrentRequests ==
    {Started("delete", uid, d, {}) : uid \in Uids, d \in DOMAIN ConcurrentDocuments}
    \cup {Started("share", uid, d, {t}) :
             uid \in Uids, d \in DOMAIN ConcurrentDocuments, t \in {"u1", "u3"}}

InitConcurrent ==
    /\ authClaims = [u \in Uids |->
                        CASE u = "u1" -> [role |-> ADMIN, employeeId |-> "E0"]
                          [] u = "u2" -> [role |-> HR, employeeId |-> "E2"]
                          [] OTHER -> [role |-> EMPLOYEE, employeeId |-> "E1"]]
    /\ users = [u \in Uids |->
                   [role |-> CASE u = "u1" -> ADMIN [] u = "u2" -> HR [] OTHER -> EMPLOYEE,
                    isActive |-> TRUE]]
    /\ documents = ConcurrentDocuments
    /\ bucket = ConcurrentBucket
    /\ auditLogs = <<>>
    /\ auditUp = FALSE
    /\ now = 0
    /\ memo = NoMemo
    /\ inflight \in [Slots -> ConcurrentRequests]
    /\ limiter = NoLimiter

NextConcurrent ==
    \/ \E r \in Slots : Read(r)
    \/ \E r \in Slots : Check(r)
    \/ \E r \in Slots, kind \in ObjectKinds : DeleteObject(r, kind)
    \/ \E r \in Slots : Update(r)

SpecConcurrent == InitConcurrent /\ [][NextConcurrent]_vars

RECURSIVE RunAlone(_)
\* the world after the request of w has run to its end with nothing in
\* between its steps
RunAlone(w) ==
    IF w.q.pc = "done" THEN w
    ELSE IF w.q.pc = "read" THEN RunAlone(ReadStep(w))
    ELSE IF w.q.pc = "check" THEN RunAlone(CheckStep(w))
    ELSE IF w.q.pc = "storage"
         THEN RunAlone(StorageStep(w, IF w.q.dataDone THEN "enc" ELSE "data"))
    ELSE RunAlone(UpdateStep(w))

\* the request that slot r was started with
Request(r) ==
    Started(inflight[r].op, inflight[r].uid, inflight[r].documentId,
            inflight[r].shareWith)

\* the stores and the responses when the request of slot a runs to its end
\* and then the request of slot b, from the stores of InitConcurrent
OneAtATime(a, b) ==
    LET first == RunAlone([documents |-> ConcurrentDocuments,
                           bucket |-> ConcurrentBucket, q |-> Request(a)])
        second == RunAlone([documents |-> first.documents,
                            bucket |-> first.bucket, q |-> Request(b)])
    IN  [documents |-> second.documents, bucket |-> second.bucket,
         results |-> [r \in Slots |-> IF r = a THEN first.q.result
                                      ELSE second.q.result]]

\* ------------------------------------------------------------------------
\* Specification of sharing with many principals: share requests through
\* the route on two uploaded documents, and deletes of them
\* ------------------------------------------------------------------------

\* principals a document can be shared with
ShareIds ==
    {"p01", "p02", "p03", "p04", "p05", "p06", "p07", "p08", "p09", "p10",
     "p11", "p12", "p13", "p14", "p15", "p16", "p17", "p18", "p19", "p20",
     "p21", "p22"}

\* the shareWith lists of the requests
ShareBatches ==
    {{"p01", "p02", "p03", "p04", "p05", "p06", "p07", "p08", "p09", "p10"},
     {"p11", "p12", "p13", "p14", "p15", "p16", "p17", "p18", "p19", "p20"},
     {"p01", "p21", "p22"},
     {"u3"},
     {},
     ShareIds}

ShareBatch(uid, documentId, shareWith, fail) ==
    Complete(shareRequest(uid, "route", documentId, shareWith, fail))

DeleteShared(uid, documentId) ==
    Complete(deleteRequest(uid, "route", documentId, "none"))

InitShare ==
    /\ authClaims = [u \in Uids |->
                        CASE u = "u1" -> [role |-> ADMIN, employeeId |-> "E0"]
                          [] u = "u2" -> [role |-> HR, employeeId |-> "E2"]
                          [] OTHER -> [role |-> EMPLOYEE, employeeId |-> "E1"]]
    /\ users = [u \in Uids |->
                   [role |-> CASE u = "u1" -> ADMIN [] u = "u2" -> HR [] OTHER -> EMPLOYEE,
                    isActive |-> TRUE]]
    /\ documents = ConcurrentDocuments
    /\ bucket = ConcurrentBucket
    /\ auditLogs = <<>>
    /\ auditUp = FALSE
    /\ now = 0
    /\ memo = NoMemo
    /\ inflight = NoRequests
    /\ limiter = NoLimiter

NextShare ==
    \/ \E uid \in Uids, d \in DOMAIN ConcurrentDocuments, ids \in ShareBatches,
          fail \in ShareFailures :
          ShareBatch(uid, d, ids, fail)
    \/ \E uid \in Uids, d \in DOMAIN ConcurrentDocuments : DeleteShared(uid, d)

SpecShare == InitShare /\ [][NextShare]_vars

\* ------------------------------------------------------------------------
\* Properties
\* ------------------------------------------------------------------------

\* results that turn a request away
Denials == {"denied", "forbidden", "account_disabled"}

\* the outcomes of the (at most two) audit writes of one request
WriteOutcomes == [1..2 -> BOOLEAN]

\* the entries a response adds to the ledger under the given write outcomes
Appended(resp, writeOk) ==
    LET after == LedgerAfter(resp, writeOk)
    IN  SubSeq(after, Len(resp.kept) + 1, Len(after))

\* positions of the events of a kind in a sequence of events
OfKind(events, kind) == {i \in DOMAIN events : events[i].eventType = kind}

\* the response leaves every store as it is
LeavesStores(resp) ==
    /\ resp.documents = documents
    /\ resp.bucket = bucket
    /\ resp.users = users
    /\ resp.authClaims = authClaims
    /\ resp.kept = auditLogs

\* both read paths turn the principal away on the document
ReadDenied(uid, d) ==
    /\ canAccessDocument(verifyToken(uid), documents[d]) # "true"
    /\ \A via \in Entries, fail \in DownloadFailures :
          LET resp == downloadRequest(uid, via, d, fail)
          IN  resp.result \in Denials /\ resp.returned = NoVal
    /\ \A via \in Entries, fail \in SignFailures :
          LET resp == signedUrlRequest(uid, via, d, fail)
          IN  resp.result \in Denials /\ resp.returned = NoVal

\* both read paths pass the access check for the principal on the document
ReadAllowed(uid, d) ==
    /\ canAccessDocument(verifyToken(uid), documents[d]) = "true"
    /\ \A fail \in DownloadFailures :
          downloadDocument(d, verifyToken(uid), fail).result # "denied"
    /\ \A fail \in SignFailures :
          generateSignedUrl(d, verifyToken(uid), fail).result # "denied"
    /\ (<<d, "data">> \in bucket /\ <<d, "enc">> \in bucket)
          => downloadDocument(d, verifyToken(uid), "none").returned = d
    /\ generateSignedUrl(d, verifyToken(uid), "none").returned = d

\* ---- C1 ----------------------------------------------------------------

\* C1 as stated: in every reachable state an employee-role principal E is
\* denied read (download and signed URL) on every document R with
\* R.employeeId # E.employeeId and E.uid not in R.sharedWith.
C1_EmployeeDeniedOthers ==
    \A uid \in Uids, d \in DOMAIN documents :
        (/\ verifyToken(uid).role = EMPLOYEE
         /\ documents[d].employeeId # verifyToken(uid).employeeId
         /\ uid \notin documents[d].sharedWith)
        => ReadDenied(uid, d)

\* C1 amended: an employee-role principal E is denied read on every document
\* R with R.employeeId # E.employeeId, E.uid not in R.sharedWith and
\* R.ownerId # E.uid (an employee who owns the record is allowed).
C1_EmployeeDeniedOthersNotOwned ==
    \A uid \in Uids, d \in DOMAIN documents :
        (/\ verifyToken(uid).role = EMPLOYEE
         /\ documents[d].employeeId # verifyToken(uid).employeeId
         /\ uid \notin documents[d].sharedWith
         /\ documents[d].ownerId # uid)
        => ReadDenied(uid, d)

\* an employee was denied the download of a record that is about someone
\* else, not shared with them and not theirs, and the ledger shows it
C1_Witness ==
    \E uid \in Uids, d \in DOMAIN documents :
        /\ verifyToken(uid).role = EMPLOYEE
        /\ documents[d].employeeId # verifyToken(uid).employeeId
        /\ uid \notin documents[d].sharedWith
        /\ documents[d].ownerId # uid
        /\ ReadDenied(uid, d)
        /\ \E i \in DOMAIN auditLogs :
              /\ auditLogs[i].eventType = ACCESS_DENIED
              /\ auditLogs[i].uid = uid
              /\ auditLogs[i].resourceId = d

\* ---- C2 ----------------------------------------------------------------

\* C2: for a principal whose role is admin every access check allows on
\* every document: upload, read (download and signed URL), delete and share;
\* and listDocuments restricts the listing by no employee id of the principal.
C2_AdminAllowedEverything ==
    \A uid \in Uids :
        verifyToken(uid).role = ADMIN =>
            /\ \A e \in RequestEmployeeIds :
                  /\ canUploadDocument(verifyToken(uid), [employeeId |-> e])
                  /\ listDocuments(verifyToken(uid), [employeeId |-> e]).listed
                        = {d \in DOMAIN documents :
                              /\ documents[d].isActive
                              /\ e # NoVal => documents[d].employeeId = e}
            /\ \A d \in DOMAIN documents :
                  /\ ReadAllowed(uid, d)
                  /\ canDeleteDocument(verifyToken(uid), documents[d])
                  /\ canShareDocument(verifyToken(uid), documents[d])
                  /\ \A fail \in DeleteFailures :
                        deleteDocument(d, verifyToken(uid), fail).result # "denied"
                  /\ \A t \in SUBSET ShareTargets, fail \in ShareFailures :
                        shareDocument(d, t, verifyToken(uid), fail).result # "denied"

\* an admin has deleted a record that is neither theirs nor about them nor
\* shared with them
C2_Witness ==
    \E uid \in Uids, d \in DOMAIN documents :
        /\ verifyToken(uid).role = ADMIN
        /\ documents[d].ownerId # uid
        /\ documents[d].employeeId # verifyToken(uid).employeeId
        /\ uid \notin documents[d].sharedWith
        /\ ~documents[d].isActive
        /\ documents[d].deletedBy = uid

\* ---- C3 ----------------------------------------------------------------

C4_SharedReadOnly ==
    \A uid \in Uids, d \in DOMAIN documents :
        (/\ uid \in documents[d].sharedWith
         /\ verifyToken(uid).role \notin {ADMIN, HR}
         /\ documents[d].ownerId # uid
         /\ documents[d].employeeId # verifyToken(uid).employeeId)
        => /\ ReadAllowed(uid, d)
           /\ ~canDeleteDocument(verifyToken(uid), documents[d])
           /\ ~canShareDocument(verifyToken(uid), documents[d])
           /\ \A fail \in DeleteFailures :
                 LET resp == deleteDocument(d, verifyToken(uid), fail)
                 IN  resp.result = "denied" /\ LeavesStores(resp)
           /\ \A t \in SUBSET ShareTargets, fail \in ShareFailures :
                 LET resp == shareDocument(d, t, verifyToken(uid), fail)
                 IN  resp.result = "denied" /\ LeavesStores(resp)

\* a principal that only the sharing list lets in has downloaded the record,
\* as the ledger shows
C4_Witness ==
    \E uid \in Uids, d \in DOMAIN documents :
        /\ uid \in documents[d].sharedWith
        /\ verifyToken(uid).role \notin {ADMIN, HR}
        /\ documents[d].ownerId # uid
        /\ documents[d].employeeId # verifyToken(uid).employeeId
        /\ documents[d].accessCount > 0
        /\ \E i \in DOMAIN auditLogs :
              /\ auditLogs[i].eventType = DOCUMENT_DOWNLOAD
              /\ auditLogs[i].uid = uid
              /\ auditLogs[i].resourceId = d
              /\ auditLogs[i].success

\* ---- C5 ----------------------------------------------------------------

\* C5 as stated: the owner of a document is allowed read, share and delete
\* on it, whatever the role of the owner is.
C5_OwnerReadShareDelete ==
    \A uid \in Uids, d \in DOMAIN documents :
        documents[d].ownerId = uid =>
            /\ ReadAllowed(uid, d)
            /\ canShareDocument(verifyToken(uid), documents[d])
            /\ canDeleteDocument(verifyToken(uid), documents[d])

\* C5 amended: the owner of a document is allowed read and share on it
\* whatever the role of the owner is; the owner is allowed delete exactly when
\* the role is admin or hr, and an owner whose role is employee is denied it.
C5_OwnerReadShare ==
    \A uid \in Uids, d \in DOMAIN documents :
        documents[d].ownerId = uid =>
            /\ ReadAllowed(uid, d)
            /\ canShareDocument(verifyToken(uid), documents[d])
            /\ \A t \in SUBSET ShareTargets, fail \in ShareFailures :
                  shareDocument(d, t, verifyToken(uid), fail).result # "denied"
            /\ canDeleteDocument(verifyToken(uid), documents[d])
                  <=> verifyToken(uid).role \in {ADMIN, HR}
            /\ \A fail \in DeleteFailures :
                  deleteDocument(d, verifyToken(uid), fail).result = "denied"
                      <=> verifyToken(uid).role = EMPLOYEE

\* the owner of a record has become an employee: reading and sharing pass,
\* the delete is denied
C5_Witness ==
    \E uid \in Uids, d \in DOMAIN documents :
        /\ documents[d].ownerId = uid
        /\ verifyToken(uid).role = EMPLOYEE
        /\ documents[d].employeeId # verifyToken(uid).employeeId
        /\ ReadAllowed(uid, d)
        /\ shareDocument(d, ShareTargets, verifyToken(uid), "none").result = "ok"
        /\ deleteDocument(d, verifyToken(uid), "none").result = "denied"

\* ---- C6 ----------------------------------------------------------------

\* the admin chain turns the request away before the handler takes a step
RejectedByChain(resp) ==
    /\ resp.result \in {"forbidden", "account_disabled"}
    /\ LeavesStores(resp)
    /\ resp.steps = <<ACCESS_DENIED>>

\* C6: a principal whose role is hr is allowed upload, download, delete, list
\* and share on every document, and every admin route (role change, status
\* change, audit query and export, audit cleanup) rejects the principal
\* before its handler changes any state.
C6_HrScope ==
    \A uid \in Uids :
        verifyToken(uid).role = HR =>
            /\ \A e \in RequestEmployeeIds :
                  /\ canUploadDocument(verifyToken(uid), [employeeId |-> e])
                  /\ listDocuments(verifyToken(uid), [employeeId |-> e]).listed
                        = {d \in DOMAIN documents :
                              /\ documents[d].isActive
                              /\ e # NoVal => documents[d].employeeId = e}
            /\ requireRole(verifyToken(uid), {HR, ADMIN}, "POST /upload",
                           [Unchanged EXCEPT !.result = "next"]).result = "next"
            /\ \A d \in DOMAIN documents :
                  /\ ReadAllowed(uid, d)
                  /\ canDeleteDocument(verifyToken(uid), documents[d])
                  /\ canShareDocument(verifyToken(uid), documents[d])
            /\ \A t \in RoleTargets, r \in Roles, fail \in RoleFailures :
                  RejectedByChain(updateRoleRequest(uid, t, r, fail))
            /\ \A t \in StatusTargets, a \in BOOLEAN, fail \in StatusFailures :
                  RejectedByChain(updateStatusRequest(uid, t, a, fail))
            /\ \A endpoint \in AuditEndpoints :
                  RejectedByChain(auditReadRequest(uid, endpoint))
            /\ \A r \in Retentions, fail \in CleanupFailures :
                  RejectedByChain(cleanupRequest(uid, r, fail))

\* an hr principal has a document to work on and was turned away by an admin
\* route, as the ledger shows
C6_Witness ==
    \E uid \in Uids :
        /\ verifyToken(uid).role = HR
        /\ DOMAIN documents # {}
        /\ \E i \in DOMAIN auditLogs :
              /\ auditLogs[i].eventType = ACCESS_DENIED
              /\ auditLogs[i].uid = uid
              /\ auditLogs[i].reason = "insufficient_role"
              /\ auditLogs[i].action = "PUT /users/:userId/role"

\* ---- C7 ----------------------------------------------------------------

\* C7: for every principal (the role claim or the employee id may be missing;
\* a missing role is taken as employee) and every document (the sharing list
\* may be missing) each of the upload, read, delete and share checks gives
\* allow or deny, and the decision a request was given is the decision the
\* same principal attributes and document attributes get in every later state.
C7_TotalAndDeterministic ==
    \A uid \in Uids :
        /\ verifyToken(uid).role \in Roles
        /\ authClaims[uid].role = NoVal => verifyToken(uid).role = EMPLOYEE
        /\ \A d \in DOMAIN documents, check \in Checks :
              Decision(check, verifyToken(uid), documents[d]) \in {"allow", "deny"}
        /\ \A d \in DOMAIN documents :
              (/\ memo.check \in Checks \ {"upload"}
               /\ memo.principal = verifyToken(uid)
               /\ memo.document = documents[d])
              => Decision(memo.check, verifyToken(uid), documents[d]) = memo.decision
        /\ (memo.check = "upload" /\ memo.principal = verifyToken(uid))
              => Decision("upload", verifyToken(uid), NoDoc) = memo.decision

\* a principal with no role claim and no employee id was denied the read of a
\* document with no sharing list, and time has passed since
C7_Witness ==
    \E uid \in Uids, d \in DOMAIN documents :
        /\ authClaims[uid].role = NoVal
        /\ authClaims[uid].employeeId = NoVal
        /\ ~documents[d].hasSharedWith
        /\ memo.check = "read"
        /\ memo.principal = verifyToken(uid)
        /\ memo.document = documents[d]
        /\ memo.decision = "deny"
        /\ now > 0

\* ---- C8 ----------------------------------------------------------------

\* the response hands logEvent an access_denied event that carries a reason
ReportsDenial(resp) ==
    \E i \in DOMAIN resp.logs :
        /\ resp.logs[i].eventType = ACCESS_DENIED
        /\ resp.logs[i].reason # NoVal

\* C8 as stated: every denial, on every path (requireRole,
\* requireEmployeeAccess, the disabled-account check, the permission checks
\* of upload, download, delete, share and signed URL), appends an
\* access_denied event that carries the reason.
C8_EveryDenialAudited ==
    \A uid \in Uids, via \in Entries :
        /\ \A e \in RequestEmployeeIds, fail \in UploadFailures :
              ~canUploadDocument(verifyToken(uid), [employeeId |-> e])
                  => ReportsDenial(uploadRequest(uid, via, e, fail))
        /\ \A e \in RequestEmployeeIds :
              statisticsRequest(uid, via, e).result \in Denials
                  => ReportsDenial(statisticsRequest(uid, via, e))
        /\ \A t \in RoleTargets, r \in Roles, fail \in RoleFailures :
              updateRoleRequest(uid, t, r, fail).result \in Denials
                  => ReportsDenial(updateRoleRequest(uid, t, r, fail))
        /\ \A d \in DOMAIN documents :
              /\ \A fail \in DownloadFailures :
                    downloadRequest(uid, via, d, fail).result \in Denials
                        => ReportsDenial(downloadRequest(uid, via, d, fail))
              /\ \A fail \in DeleteFailures :
                    deleteRequest(uid, via, d, fail).result \in Denials
                        => ReportsDenial(deleteRequest(uid, via, d, fail))
              /\ \A t \in SUBSET ShareTargets, fail \in ShareFailures :
                    shareRequest(uid, via, d, t, fail).result \in Denials
                        => ReportsDenial(shareRequest(uid, via, d, t, fail))
              /\ \A fail \in SignFailures :
                    signedUrlRequest(uid, via, d, fail).result \in Denials
                        => ReportsDenial(signedUrlRequest(uid, via, d, fail))

\* ---- C9 ----------------------------------------------------------------

\* C9 as stated: when downloadDocument denies a request, exactly one
\* access_denied event is appended for it and no document_download event,
\* success or failure, is appended for it (the audit writes succeed).
C9_DenialLogsNoDownload ==
    \A uid \in Uids, d \in DOMAIN documents, fail \in DownloadFailures :
        LET resp == downloadDocument(d, verifyToken(uid), fail)
            added == Appended(resp, [i \in 1..2 |-> TRUE])
        IN  resp.result = "denied" =>
                /\ Cardinality(OfKind(added, ACCESS_DENIED)) = 1
                /\ OfKind(added, DOCUMENT_DOWNLOAD) = {}

\* ---- C10 ---------------------------------------------------------------

\* the kinds of the three operations
OperationKinds == {DOCUMENT_UPLOAD, DOCUMENT_DOWNLOAD, DOCUMENT_DELETE}

\* the responses of the upload, download and delete calls a state admits,
\* each with the kind of its operation
Operations ==
    {<<DOCUMENT_UPLOAD, uploadDocument([employeeId |-> e], verifyToken(uid), fail)>> :
        uid \in {u \in Uids : canUploadDocument(verifyToken(u), [employeeId |-> NoVal])
                                 => FreshIds # {}},
        e \in RequestEmployeeIds, fail \in UploadFailures}
    \cup
    {<<DOCUMENT_DOWNLOAD, downloadDocument(d, verifyToken(uid), fail)>> :
        uid \in Uids, d \in DocIds, fail \in DownloadFailures}
    \cup
    {<<DOCUMENT_DELETE, deleteDocument(d, verifyToken(uid), fail)>> :
        uid \in Uids, d \in DocIds, fail \in DeleteFailures}

\* C10 as stated: for each upload, download or delete exactly one event of
\* the kind of the operation is appended, after the outcome is determined.
C10_ExactlyOneEvent ==
    \A op \in Operations, writeOk \in WriteOutcomes :
        Cardinality(OfKind(Appended(op[2], writeOk), op[1])) = 1

\* C10 amended: each call of uploadDocument, downloadDocument or
\* deleteDocument hands logEvent exactly one event of the kind of the
\* operation, as its last step (after every effect, when the outcome is
\* determined), and the event tells the outcome; so at most one such event is
\* appended, never a success and a failure, and exactly one whenever the
\* audit write of that event succeeds (none when it fails).
C10_OneEventWhenWritten ==
    \A op \in Operations, writeOk \in WriteOutcomes :
        LET kind == op[1]
            resp == op[2]
            handed == OfKind(resp.logs, kind)
            added == Appended(resp, writeOk)
        IN  /\ Cardinality(handed) = 1
            /\ \A i \in handed :
                  /\ i = Len(resp.logs)
                  /\ resp.logs[i].success = (resp.result = "ok")
                  /\ Cardinality(OfKind(added, kind)) = (IF writeOk[i] THEN 1 ELSE 0)
            /\ \A i \in OfKind(added, kind) : added[i].success = (resp.result = "ok")
            /\ resp.steps[Len(resp.steps)] = kind
            /\ \A j \in 1..(Len(resp.steps) - 1) : resp.steps[j] \notin OperationKinds

\* an upload and a delete of the same document have each succeeded, and the
\* ledger holds one event for each
C10_Witness ==
    \E d \in DOMAIN documents :
        /\ ~documents[d].isActive
        /\ \E i, j \in DOMAIN auditLogs :
              /\ i < j
              /\ auditLogs[i].eventType = DOCUMENT_UPLOAD
              /\ auditLogs[i].resourceId = d
              /\ auditLogs[i].success
              /\ auditLogs[j].eventType = DOCUMENT_DELETE
              /\ auditLogs[j].resourceId = d
              /\ auditLogs[j].success
        /\ Cardinality(OfKind(auditLogs, DOCUMENT_UPLOAD)) = 1
        /\ Cardinality(OfKind(auditLogs, DOCUMENT_DELETE)) = 1

\* ---- C11 ---------------------------------------------------------------

\* the responses of the calls that log through logEvent: uploads, downloads,
\* deletes, role changes and logins
LoggingCalls ==
    {op[2] : op \in Operations}
    \cup {updateUserRole(verifyToken(uid), t, r, fail) :
             uid \in Uids, t \in RoleTargets, r \in Roles, fail \in RoleFailures}
    \cup {login(uid) : uid \in Uids}

\* C11: logEvent never throws to its caller: when the write to the audit
\* store fails it emits to the process log and returns null, and the upload,
\* download, delete, login or role change that called it ends with the result
\* and the stores it would have had with the audit write succeeding; only
\* the ledger differs, by the entries that were not written.
C11_AuditFailureSwallowed ==
    /\ logEventResult(FALSE) = [returned |-> "null", thrown |-> FALSE,
                                consoleError |-> TRUE]
    /\ ~logEventResult(TRUE).thrown
    /\ \A resp \in LoggingCalls, writeOk \in WriteOutcomes :
          /\ Returned(resp, writeOk) = Returned(resp, [i \in 1..2 |-> TRUE])
          /\ Returned(resp, writeOk) = resp.result
          /\ Len(LedgerAfter(resp, writeOk)) =
                Len(resp.kept) + Cardinality({i \in DOMAIN resp.logs : writeOk[i]})
          /\ LedgerAfter(resp, [i \in 1..2 |-> FALSE]) = resp.kept

\* the audit store is down and an upload and a download have gone through:
\* the record is there with its access counted, the ledger is empty
C11_Witness ==
    /\ ~auditUp
    /\ auditLogs = <<>>
    /\ \E d \in DOMAIN documents :
          /\ documents[d].isActive
          /\ documents[d].accessCount > 0
          /\ {<<d, "data">>, <<d, "enc">>} \subseteq bucket

\* ---- C12 ---------------------------------------------------------------

\* the entries of the ledger are those of before, unchanged and in order,
\* followed by the ones written in the step
LedgerExtended ==
    /\ Len(auditLogs') >= Len(auditLogs)
    /\ SubSeq(auditLogs', 1, Len(auditLogs)) = auditLogs

\* entries went away in a cleanup: the ones left are unchanged and in order,
\* the last entry of the ledger is the event of the cleanup route
LedgerCleaned ==
    \E gone \in SUBSET (1..Len(auditLogs)) :
        LET left == Without(auditLogs, gone, 1)
        IN  /\ Len(auditLogs') = Len(left) + 1
            /\ SubSeq(auditLogs', 1, Len(left)) = left
            /\ auditLogs'[Len(auditLogs')].action = "cleanup_audit_logs"
            /\ auditLogs'[Len(auditLogs')].eventType = ROLE_CHANGE

\* C12: the ledger is append-only: in every step the entries already written
\* keep all their fields, and a step that removes an entry is a run of
\* cleanupOldLogs (through the cleanup route, which logs its own event).
C12_LedgerAppendOnly == [][LedgerExtended \/ LedgerCleaned]_vars

\* a cleanup has removed the event of an upload: the record of the upload is
\* there, its event is not, the event of the cleanup is
C12_Witness ==
    /\ auditUp
    /\ documents # <<>>
    /\ OfKind(auditLogs, DOCUMENT_UPLOAD) = {}
    /\ \E i \in DOMAIN auditLogs : auditLogs[i].action = "cleanup_audit_logs"

\* ---- C13 ---------------------------------------------------------------

\* the entries of a ledger that are not older than the cutoff, in order
NotOlder(ledger, cutoff) ==
    LET AtOrAfter(entry) == entry.timestamp >= cutoff
    IN  SelectSeq(ledger, AtOrAfter)

\* C13: cleanupOldLogs(retentionDays) deletes only entries with a timestamp
\* strictly older than now - retentionDays, at most 500 of them in one call,
\* and returns the number it deleted; every entry that is not older than the
\* cutoff is still in the ledger afterwards.
C13_CleanupOnlyOld ==
    \A r \in Retentions :
        LET done == cleanupOldLogs(r)
            cutoff == now - r
        IN  /\ done.deletedCount = Len(auditLogs) - Len(done.kept)
            /\ done.deletedCount <= BatchLimit
            /\ NotOlder(done.kept, cutoff) = NotOlder(auditLogs, cutoff)
            /\ Len(done.kept) - Len(NotOlder(done.kept, cutoff)) =
                  Len(auditLogs) - Len(NotOlder(auditLogs, cutoff)) - done.deletedCount

\* a call found 502 old entries and deleted 500 of them: two entries of
\* day 0 are left, beside an entry exactly at the cutoff of a later call that
\* is kept by it
C13_Witness ==
    /\ Cardinality({i \in DOMAIN auditLogs : auditLogs[i].timestamp = 0}) = 2
    /\ \E r \in Retentions :
          /\ \E i \in DOMAIN auditLogs : auditLogs[i].timestamp = now - r
          /\ cleanupOldLogs(r).deletedCount = 2
          /\ Len(cleanupOldLogs(r).kept) = Len(auditLogs) - 2

\* ---- C14 ---------------------------------------------------------------

\* C14: a cleanup requested through POST /api/admin/cleanup-logs with a
\* retention period below 365 days is rejected before anything is deleted:
\* cleanupOldLogs is not run, the ledger keeps every entry, and the request is
\* not answered with success.
C14_ShortRetentionRejected ==
    \A uid \in Uids, r \in Retentions, fail \in CleanupFailures :
        r < RetentionFloor =>
            LET resp == cleanupRequest(uid, r, fail)
            IN  /\ resp.kept = auditLogs
                /\ resp.result # "ok"
                /\ \A i \in DOMAIN resp.steps : resp.steps[i] # "cleanup"
                /\ \A writeOk \in WriteOutcomes :
                      SubSeq(LedgerAfter(resp, writeOk), 1, Len(auditLogs)) = auditLogs

\* the ledger holds an entry older than 30 days (and so does cleanupOldLogs(30)
\* have something to delete), and the administrator's request with 30 days is
\* answered 400
C14_Witness ==
    /\ \E i \in DOMAIN auditLogs : auditLogs[i].timestamp < now - 30
    /\ cleanupOldLogs(30).deletedCount > 0
    /\ cleanupRequest("u1", 30, "none").result = "bad_request"
    /\ cleanupRequest("u1", 30, "none").kept = auditLogs

\* ---- C15 ---------------------------------------------------------------

\* C15: after deleteDocument has succeeded on a document, every later
\* downloadDocument and generateSignedUrl on it is refused for every
\* principal, administrators and HR included: no request returns its
\* plaintext or a signed URL for it.
C15_DeletedNeverServed ==
    \A d \in DOMAIN documents :
        ~documents[d].isActive =>
            \A uid \in Uids, via \in Entries :
                /\ \A fail \in DownloadFailures :
                      LET resp == downloadRequest(uid, via, d, fail)
                      IN  resp.result # "ok" /\ resp.returned = NoVal
                /\ \A fail \in SignFailures :
                      LET resp == signedUrlRequest(uid, via, d, fail)
                      IN  resp.result # "ok" /\ resp.returned = NoVal

\* ---- C16 ---------------------------------------------------------------

\* no listing and no statistics, for any principal and any filter, includes a
\* soft-deleted document
DeletedNotListed ==
    \A d \in DOMAIN documents :
        ~documents[d].isActive =>
            \A uid \in Uids, via \in Entries, e \in RequestEmployeeIds :
                /\ d \notin listRequest(uid, via, e).listed
                /\ d \notin statisticsRequest(uid, via, e).listed

\* a record of the metadata store stays in it, with its owner and subject
RecordsRetained ==
    \A d \in DOMAIN documents :
        /\ d \in DOMAIN documents'
        /\ documents'[d].ownerId = documents[d].ownerId
        /\ documents'[d].employeeId = documents[d].employeeId

\* C16: after deleteDocument has succeeded on a document, it appears in no
\* listDocuments result and is counted in no getDocumentStatistics result,
\* for any principal and any filters, while its DocumentRecord is retained in
\* the metadata store.
C16_DeletedHiddenButRetained == []DeletedNotListed /\ [][RecordsRetained]_vars

\* a deleted document: its record is in the store, the administrator's
\* listing and statistics succeed and do not show it
C16_Witness ==
    \E d \in DOMAIN documents :
        /\ ~documents[d].isActive
        /\ documents[d].deletedBy # NoVal
        /\ listRequest("u1", "route", NoVal).result = "ok"
        /\ listRequest("u1", "route", NoVal).listed = {}
        /\ statisticsRequest("u1", "service", NoVal).result = "ok"
        /\ statisticsRequest("u1", "service", NoVal).listed = {}

\* ---- C17 ---------------------------------------------------------------

\* a soft-deleted record stays soft-deleted, with the time and the principal
\* of its deletion
DeletionKept ==
    \A d \in DOMAIN documents :
        ~documents[d].isActive =>
            /\ d \in DOMAIN documents'
            /\ ~documents'[d].isActive
            /\ documents'[d].deletedAt = documents[d].deletedAt
            /\ documents'[d].deletedBy = documents[d].deletedBy

\* C17: soft delete is irreversible: once a record has isActive = false, no
\* operation (upload, share, download, delete, signed URL) sets it back to
\* true, and deletedAt and deletedBy keep the values the successful delete
\* wrote.
C17_SoftDeleteIrreversible == [][DeletionKept]_vars

\* a document deleted on an earlier day: deleting it again fails (its objects
\* are gone) while sharing and signing still go through on it
C17_Witness ==
    \E d \in DOMAIN documents :
        /\ ~documents[d].isActive
        /\ documents[d].deletedAt # NoTime
        /\ documents[d].deletedAt < now
        /\ documents[d].deletedBy = "u2"
        /\ documents[d].hasSharedWith
        /\ deleteRequest("u1", "route", d, "none").result = "error"
        /\ shareRequest("u1", "route", d, {"u3"}, "none").result = "ok"

\* ---- C18 ---------------------------------------------------------------

\* C18: shareDocument on a soft-deleted document is rejected and leaves its
\* sharedWith unchanged.
C18_ShareDeletedRejected ==
    \A d \in DOMAIN documents :
        ~documents[d].isActive =>
            \A uid \in Uids, via \in Entries, t \in SUBSET ShareTargets \ {{}},
               fail \in ShareFailures :
                LET resp == shareRequest(uid, via, d, t, fail)
                IN  /\ resp.result # "ok"
                    /\ resp.documents[d].sharedWith = documents[d].sharedWith
                    /\ resp.documents[d].hasSharedWith = documents[d].hasSharedWith

\* ---- C19 ---------------------------------------------------------------

\* C19: concurrent shareDocument and deleteDocument requests on one record
\* are serialized: whatever the interleaving of their read, permission-check,
\* blob-store and metadata-write steps, when both are over the records, the
\* bucket and the two responses are those of the two requests run one at a
\* time in some order (and so a request leaves the document of the other
\* alone when the two are on different documents).
C19_SerializedPerResource ==
    (\A r \in Slots : inflight[r].pc = "done") =>
        [documents |-> documents, bucket |-> bucket,
         results |-> [r \in Slots |-> inflight[r].result]]
            \in {OneAtATime("r1", "r2"), OneAtATime("r2", "r1")}

\* ---- C20 ---------------------------------------------------------------

CreatedAsBuilt ==
    \A uid \in Uids, via \in Entries, e \in RequestEmployeeIds,
       fail \in UploadFailures :
        FreshIds # {} =>
        LET resp == uploadRequest(uid, via, e, fail)
        IN  \A d \in DOMAIN resp.documents \ DOMAIN documents :
                LET record == resp.documents[d]
                IN  /\ record.version = 1
                    /\ record.ownerId = uid
                    /\ record.employeeId =
                          (IF e # NoVal THEN e ELSE verifyToken(uid).employeeId)
                    /\ record.isActive
                    /\ record.accessCount = 0
                    /\ record.sharedWith = {}
                    /\ record.deletedBy = NoVal

\* the version of a record does not decrease
VersionKept ==
    \A d \in DOMAIN documents :
        d \in DOMAIN documents' /\ documents'[d].version >= documents[d].version

\* C21: every DocumentRecord that uploadDocument creates has version 1, the
\* uploader's uid as ownerId, the employee id of the request as employeeId
\* (the uploader's own when the request gives none), isActive true,
\* accessCount 0 and an empty sharedWith; the version of a record never
\* decreases afterwards.
C21_RecordAsUploaded == []CreatedAsBuilt /\ [][VersionKept]_vars

\* hr u2 has uploaded a document about employee E1, another employee than
\* u2's own, and the record is still as created
C21_Witness ==
    \E d \in DOMAIN documents :
        /\ documents[d].ownerId = "u2"
        /\ documents[d].employeeId = "E1"
        /\ documents[d].version = 1
        /\ documents[d].isActive
        /\ documents[d].accessCount = 0
        /\ documents[d].sharedWith = {}

\* ---- C22 ---------------------------------------------------------------

\* arrays without a repeated element, and lists of ids as a request gives
\* them, over three ids
SmallIds == {"p01", "p02", "u3"}
Arrays ==
    {<<>>} \cup {<<a>> : a \in SmallIds}
    \cup {<<p[1], p[2]>> : p \in {q \in SmallIds \X SmallIds : q[1] # q[2]}}
IdLists ==
    {<<a>> : a \in SmallIds} \cup {<<a, b>> : a \in SmallIds, b \in SmallIds}

C23_SharingListBounded ==
    \A d \in DOMAIN documents : Cardinality(documents[d].sharedWith) <= ShareCap

\* ---- C24 ---------------------------------------------------------------

\* C24: listDocuments answers an employee with the active documents whose
\* employeeId is the employee's own, whatever employeeId filter the request
\* carries, and answers HR and administrators with the active documents of
\* every employee, restricted by the filter of the request only.
C24_ListingByRole ==
    \A uid \in Uids, via \in Entries, e \in RequestEmployeeIds :
        users[uid].isActive =>
            LET resp == listRequest(uid, via, e)
                own == verifyToken(uid).employeeId
            IN  /\ resp.result = "ok"
                /\ resp.listed =
                      IF verifyToken(uid).role = EMPLOYEE
                      THEN {d \in DOMAIN documents :
                               documents[d].isActive /\ documents[d].employeeId = own}
                      ELSE {d \in DOMAIN documents :
                               /\ documents[d].isActive
                               /\ e # NoVal => documents[d].employeeId = e}

\* ---- C25 ---------------------------------------------------------------

\* the response leaves, with every audit write succeeding, an event that
\* names the principal, the document and the outcome
Audited(resp, uid, d) ==
    LET added == Appended(resp, [i \in 1..2 |-> TRUE])
    IN  \E i \in DOMAIN added :
            /\ added[i].uid = uid
            /\ added[i].resourceId = d
            /\ added[i].success = (resp.result = "ok")

\* C25: every download, delete, share and signed-URL issue on a document
\* appends an audit event that records the principal, the document and the
\* outcome, whether the operation succeeds or fails, and so does every
\* upload that succeeds.
C25_EveryOperationAudited ==
    /\ \A uid \in Uids, d \in DOMAIN documents :
          /\ \A fail \in DownloadFailures :
                Audited(downloadDocument(d, verifyToken(uid), fail), uid, d)
          /\ \A fail \in DeleteFailures :
                Audited(deleteDocument(d, verifyToken(uid), fail), uid, d)
          /\ \A t \in SUBSET ShareTargets \ {{}}, fail \in ShareFailures :
                Audited(shareDocument(d, t, verifyToken(uid), fail), uid, d)
          /\ \A fail \in SignFailures :
                Audited(generateSignedUrl(d, verifyToken(uid), fail), uid, d)
    /\ \A uid \in Uids, e \in RequestEmployeeIds :
          FreshIds # {} =>
              LET resp == uploadDocument([employeeId |-> e], verifyToken(uid), "none")
              IN  resp.result = "ok" => Audited(resp, uid, FreshId)

\* ---- C26 ---------------------------------------------------------------

\* C26: every event of kind document_delete, role_change or access_denied
\* that logEvent is asked to record is emitted to the process log, whether
\* or not the write to the audit store succeeds, and no event of another
\* kind is emitted there.
C26_CriticalEventsMirrored ==
    \A resp \in LoggingCalls, writeOk \in WriteOutcomes :
        \A i \in DOMAIN resp.logs :
            LET line == consoleLog(resp.logs[i], writeOk[i])
            IN  IF resp.logs[i].eventType \in {DOCUMENT_DELETE, ROLE_CHANGE, ACCESS_DENIED}
                THEN /\ Len(line) = 1
                     /\ line[1].eventType = resp.logs[i].eventType
                     /\ line[1].userId = resp.logs[i].uid
                ELSE line = <<>>

\* ---- C27 ---------------------------------------------------------------

\* the actions and lifetimes a signed-URL request may ask for, and the bodies
\* built from them
ActionRequests == {"read", "write", "delete", "resumable", ""}
MinuteRequests == {-5, 0, 1, 15, 60, 1440, 1441, 5000}
SignBodies ==
    {[f \in {} |-> NoVal]}
    \cup {[action |-> a] : a \in ActionRequests}
    \cup {[expirationMinutes |-> m] : m \in MinuteRequests}
    \cup {[action |-> a, expirationMinutes |-> m] :
             a \in ActionRequests, m \in MinuteRequests}
IssueTimes == {0, 86400000}

\* C27: every signed URL issued through the signed-URL route lives 15
\* minutes when the request names no lifetime and at most 1440 minutes
\* whatever lifetime the request names, and it is signed for the ciphertext
\* object of the requested document and for the requested action, read when
\* none is named, which is read or write.
C27_SignedUrlBounded ==
    \A uid \in Uids, d \in DOMAIN documents, body \in SignBodies,
       fail \in SignFailures, t \in IssueTimes :
        LET resp == issueSignedUrl(uid, d, body, fail, t)
            lifetime == resp.url.expires - t
        IN  resp.issued =>
                /\ lifetime <= MaxExpirationMinutes * MsPerMinute
                /\ lifetime > 0
                /\ "expirationMinutes" \notin DOMAIN body
                       => lifetime = DefaultExpirationMinutes * MsPerMinute
                /\ "expirationMinutes" \in DOMAIN body
                       => lifetime = body.expirationMinutes * MsPerMinute
                /\ resp.url.file = <<d, "data">>
                /\ resp.url.action \in {"read", "write"}
                /\ resp.url.action = (IF "action" \in DOMAIN body
                                      THEN body.action ELSE "read")

\* a document exists for which the administrator is issued a 15-minute read
\* URL on an empty body and a 1440-minute write URL on request, and is
\* refused 1441 minutes
C27_Witness ==
    \E d \in DOMAIN documents :
        /\ issueSignedUrl("u1", d, [f \in {} |-> NoVal], "none", 0).issued
        /\ issueSignedUrl("u1", d, [f \in {} |-> NoVal], "none", 0).url.expires
               = 15 * MsPerMinute
        /\ issueSignedUrl("u1", d, [action |-> "write", expirationMinutes |-> 1440],
                          "none", 0).url
               = [file |-> <<d, "data">>, action |-> "write",
                  expires |-> 1440 * MsPerMinute]
        /\ issueSignedUrl("u1", d, [expirationMinutes |-> 1441], "none", 0).result
               = "bad_request"

\* ---- C28 ---------------------------------------------------------------

\* how one call of the KMS client (kmsClient.encrypt, kmsClient.decrypt) ends
KmsOutcomes == {"ok", "unavailable", "deadline_exceeded", "permission_denied"}

\* the calls of the KMS client that one encryptData or decryptData makes
MaxKmsCalls == 1

\* EncryptionService.encryptData with the outcome of the KMS call: the cipher
\* is created and run first, then kmsClient.encrypt wraps the key, once; any
\* error of either is caught and becomes 'Encryption failed'.
encryptDataKms(data, kms) ==
    IF encryptData(data).thrown
    THEN [thrown |-> TRUE, error |-> "Encryption failed", payload |-> NoPayload,
          kmsCalls |-> 0]
    ELSE IF kms # "ok"
    THEN [thrown |-> TRUE, error |-> "Encryption failed", payload |-> NoPayload,
          kmsCalls |-> 1]
    ELSE [thrown |-> FALSE, error |-> NoVal,
          payload |-> encryptData(data).payload, kmsCalls |-> 1]

\* variant of decryptDataKms: when the key cannot be unwrapped the stored
\* bytes are returned as they are
decryptDataKms_fallback(encryptedPayload, kms) ==
    IF kms # "ok"
    THEN [thrown |-> FALSE, error |-> NoVal,
          data |-> encryptedPayload.encryptedData, kmsCalls |-> 1]
    ELSE [thrown |-> decryptData(encryptedPayload).thrown,
          error |-> decryptData(encryptedPayload).error,
          data |-> decryptData(encryptedPayload).data, kmsCalls |-> 1]

\* EncryptionService.decryptData with the outcome of the KMS call:
\* kmsClient.decrypt unwraps the key first, once, then the decipher is
\* created and run; any error of either is caught and becomes 'Decryption
\* failed'.
decryptDataKms(encryptedPayload, kms) ==
    IF kms # "ok"
    THEN [thrown |-> TRUE, error |-> "Decryption failed", data |-> <<>>,
          kmsCalls |-> 1]
    ELSE [thrown |-> decryptData(encryptedPayload).thrown,
          error |-> decryptData(encryptedPayload).error,
          data |-> decryptData(encryptedPayload).data, kmsCalls |-> 1]

\* how StorageService.uploadDocument and downloadDocument end with that
\* outcome of the KMS call, the bucket and the metadata store working
EncryptOutcomeKms(data, kms) ==
    IF encryptDataKms(data, kms).thrown THEN "save_data" ELSE "none"
DecryptOutcomeKms(encryptedPayload, kms) ==
    IF decryptDataKms(encryptedPayload, kms).thrown THEN "storage" ELSE "none"

C29_RoundTrip ==
    \A data \in Plaintexts, kms \in {"ok"} :
        LET enc == encryptDataKms(data, kms)
            stored == [encryptedData |-> enc.payload.encryptedData,
                       encryptedDEK |-> enc.payload.encryptedDEK,
                       iv |-> enc.payload.iv,
                       authTag |-> enc.payload.authTag,
                       algorithm |-> enc.payload.algorithm]
            dec == decryptDataKms(stored, kms)
        IN  /\ ~enc.thrown
            /\ enc.payload.algorithm = "aes-256-gcm"
            /\ ~dec.thrown
            /\ dec.data = data
            /\ \A d \in DOMAIN documents :
                  (/\ documents[d].isActive
                   /\ {<<d, "data">>, <<d, "enc">>} \subseteq bucket)
                      => downloadDocument(d, verifyToken("u1"),
                             DecryptOutcomeKms(stored, kms)).result = "ok"

\* ---- C30 ---------------------------------------------------------------

\* a byte sequence with one bit of one byte flipped (the lowest or the
\* highest bit)
Flipped(bytes) ==
    {[bytes EXCEPT ![i] = (@ + flip) % 256] : i \in DOMAIN bytes, flip \in {1, 128}}

\* the envelopes of the data as they are in the bucket after a change of the
\* ciphertext object or of the authTag of the sidecar
Tampered(data) ==
    {[Envelope(data) EXCEPT !.encryptedData = c] : c \in Flipped(Seal(data))}
    \cup {[Envelope(data) EXCEPT !.authTag = t] : t \in Flipped(Tag(data))}

\* C30: when the stored ciphertext or authentication tag was altered after
\* the upload, decryptData fails and returns no data, and the download ends
\* in an error, returns no content, leaves the access counter as it was and
\* appends no download event with success true.
C30_TamperDetected ==
    \A data \in Plaintexts :
        \A altered \in Tampered(data) :
            /\ altered # Envelope(data)
            /\ decryptData(altered).thrown
            /\ decryptData(altered).data = <<>>
            /\ \A uid \in Uids, d \in DOMAIN documents :
                  LET resp == downloadDocument(d, verifyToken(uid),
                                               DecryptOutcome(altered))
                      added == Appended(resp, [i \in 1..2 |-> TRUE])
                  IN  /\ resp.result # "ok"
                      /\ resp.returned = NoVal
                      /\ resp.documents = documents
                      /\ \A i \in DOMAIN added :
                            added[i].eventType = DOCUMENT_DOWNLOAD
                                => ~added[i].success

\* a stored, active document that the administrator may download, and an
\* envelope with one flipped ciphertext bit on which the download ends in an
\* error with a failed download event
C30_Witness ==
    \E d \in DOMAIN documents :
        LET altered == [Envelope(<<72, 82>>) EXCEPT !.encryptedData[2] = (@ + 1) % 256]
            resp == downloadDocument(d, verifyToken("u1"), DecryptOutcome(altered))
        IN  /\ documents[d].isActive
            /\ {<<d, "data">>, <<d, "enc">>} \subseteq bucket
            /\ downloadDocument(d, verifyToken("u1"), "none").result = "ok"
            /\ altered \in Tampered(<<72, 82>>)
            /\ decryptData(altered).thrown
            /\ resp.result = "error"
            /\ Len(resp.logs) = 1
            /\ ~resp.logs[1].success

\* ------------------------------------------------------------------------
\* Session management (manageSession, app.js)
\* ------------------------------------------------------------------------

\* config.security.sessionTimeout, in seconds
sessionTimeout == 3600
SecondsPerDay == 86400
MaxSessionDays == 2

\* the request as Express hands it to the first middleware, and as
\* authenticate leaves it: req.user with the lastLogin of the users record
NoUser == [hasUser |-> FALSE, lastLogin |-> NoTime]
ReqUser(uid) == [hasUser |-> TRUE, lastLogin |-> users[uid].lastLogin]

\* manageSession: only a request that carries req.user is checked; the last
\* activity is req.user.lastLogin, or the present time when that is null
manageSession(req) ==
    IF req.hasUser
    THEN LET lastActivity == IF req.lastLogin # NoTime THEN req.lastLogin ELSE now
         IN  IF (now - lastActivity) * SecondsPerDay > sessionTimeout
             THEN "SESSION_EXPIRED"
             ELSE "next"
    ELSE "next"

\* app.js: app.use(manageSession) runs on the request as it arrives, before
\* the routers, whose first middleware is authenticate. authenticate sets
\* req.user and starts updateLastLogin, whose failure is only printed
\* (touched: the write of lastLogin took place).
appRequest(uid, touched, next) ==
    IF manageSession(NoUser) = "SESSION_EXPIRED"
    THEN [Unchanged EXCEPT !.result = "session_expired"]
    ELSE IF ~users[uid].isActive
    THEN authenticate(uid, next)
    ELSE [next EXCEPT !.users = [@ EXCEPT ![uid].lastLogin =
                                     IF touched THEN now ELSE @]]

\* GET /api/documents/:documentId (download) through the application
SessionDownload(uid, documentId, touched) ==
    LET resp == appRequest(uid, touched,
                           downloadDocument(documentId, verifyToken(uid), "none"))
    IN  /\ resp.result = "ok" => documents[documentId].accessCount < MaxAccess
        /\ Complete(resp)

\* the clock advances by a day
SessionTick ==
    /\ now < MaxSessionDays
    /\ now' = now + 1
    /\ UNCHANGED <<authClaims, users, documents, bucket, auditLogs, auditUp, memo, inflight, limiter>>

\* Three principals as createUser leaves them (lastLogin null), two stored
\* documents, the audit store down.
InitSession ==
    /\ authClaims = [u \in Uids |->
                        CASE u = "u1" -> [role |-> ADMIN, employeeId |-> "E0"]
                          [] u = "u2" -> [role |-> HR, employeeId |-> "E2"]
                          [] OTHER -> [role |-> EMPLOYEE, employeeId |-> "E1"]]
    /\ users = [u \in Uids |->
                   [role |-> CASE u = "u1" -> ADMIN [] u = "u2" -> HR [] OTHER -> EMPLOYEE,
                    isActive |-> TRUE, lastLogin |-> NoTime]]
    /\ documents = ConcurrentDocuments
    /\ bucket = ConcurrentBucket
    /\ auditLogs = <<>>
    /\ auditUp = FALSE
    /\ now = 0
    /\ memo = NoMemo
    /\ inflight = NoRequests
    /\ limiter = NoLimiter

NextSession ==
    \/ \E uid \in Uids, d \in DOMAIN ConcurrentDocuments, touched \in BOOLEAN :
          SessionDownload(uid, d, touched)
    \/ SessionTick

SpecSession == InitSession /\ [][NextSession]_vars

\* ---- C31 ---------------------------------------------------------------

\* C31: a request of a principal whose last recorded activity is older than
\* the session timeout is answered SESSION_EXPIRED and reaches no route
\* handler: it changes no store.
C31_SessionExpires ==
    \A uid \in Uids, d \in DOMAIN documents, touched \in BOOLEAN :
        (/\ users[uid].lastLogin # NoTime
         /\ (now - users[uid].lastLogin) * SecondsPerDay > sessionTimeout)
            => LET resp == appRequest(uid, touched,
                               downloadDocument(d, verifyToken(uid), "none"))
               IN  /\ resp.result = "session_expired"
                   /\ resp.documents = documents
                   /\ resp.users = users

\* ---- C32 ---------------------------------------------------------------

\* the responses of the requests a principal can send through authenticate:
\* the document routes and the admin routes
RouteRequests(uid) ==
    {uploadRequest(uid, "route", e, fail) :
        e \in IF FreshIds # {} THEN RequestEmployeeIds ELSE {}, fail \in UploadFailures}
    \cup {downloadRequest(uid, "route", d, fail) :
             d \in DocIds, fail \in DownloadFailures}
    \cup {deleteRequest(uid, "route", d, fail) : d \in DocIds, fail \in DeleteFailures}
    \cup {shareRequest(uid, "route", d, t, fail) :
             d \in DocIds, t \in SUBSET ShareTargets \ {{}}, fail \in ShareFailures}
    \cup {signedUrlRequest(uid, "route", d, fail) : d \in DocIds, fail \in SignFailures}
    \cup {listRequest(uid, "route", e) : e \in RequestEmployeeIds}
    \cup {statisticsRequest(uid, "route", e) : e \in RequestEmployeeIds}
    \cup {updateRoleRequest(uid, t, r, fail) :
             t \in RoleTargets, r \in Roles, fail \in RoleFailures}
    \cup {updateStatusRequest(uid, t, a, fail) :
             t \in StatusTargets, a \in BOOLEAN, fail \in StatusFailures}
    \cup {auditReadRequest(uid, endpoint) : endpoint \in AuditEndpoints}
    \cup {cleanupRequest(uid, r, fail) : r \in Retentions, fail \in CleanupFailures}

\* a request of a disabled principal is answered ACCOUNT_DISABLED, reads and
\* changes nothing, and hands exactly one access_denied event with reason
\* account_disabled to logEvent
DisabledStopped(resp) ==
    /\ resp.result = "account_disabled"
    /\ resp.documents = documents
    /\ resp.bucket = bucket
    /\ resp.users = users
    /\ resp.authClaims = authClaims
    /\ resp.returned = NoVal
    /\ resp.listed = {}
    /\ Len(resp.logs) = 1
    /\ resp.logs[1].eventType = ACCESS_DENIED
    /\ resp.logs[1].reason = "account_disabled"
    /\ ~resp.logs[1].success

\* C32 as stated: while a principal's isActive flag is false, every request
\* it sends through authenticate is rejected with ACCOUNT_DISABLED before any
\* handler runs, and each such rejection appends one access_denied event
\* with reason account_disabled to the ledger.
C32_DisabledRejectedAndLogged ==
    \A uid \in Uids :
        ~users[uid].isActive =>
            \A resp \in RouteRequests(uid) :
                /\ DisabledStopped(resp)
                /\ Len(Appended(resp, [i \in 1..2 |-> auditUp])) = 1

\* C32 (amended): while a principal's isActive flag is false, every request
\* it sends through authenticate is rejected with ACCOUNT_DISABLED before any
\* handler runs, so it reads and changes no document, store or claim; each
\* rejection hands one access_denied event with reason account_disabled to
\* logEvent, which is appended when the audit write succeeds and is lost
\* when it fails; no step removes a principal's record.
C32_DisabledRejected ==
    /\ [](\A uid \in Uids :
            ~users[uid].isActive =>
                \A resp \in RouteRequests(uid) :
                    /\ DisabledStopped(resp)
                    /\ \A writeOk \in WriteOutcomes :
                          /\ Len(Appended(resp, writeOk)) = IF writeOk[1] THEN 1 ELSE 0
                          /\ writeOk[1] => Appended(resp, writeOk)[1].reason
                                               = "account_disabled")
    /\ [][DOMAIN users' = DOMAIN users /\ DOMAIN authClaims' = DOMAIN authClaims]_vars

\* employee u3 is disabled and the ledger holds the access_denied event of a
\* request it sent afterwards
C32_Witness ==
    /\ ~users["u3"].isActive
    /\ \E i \in DOMAIN auditLogs :
          /\ auditLogs[i].eventType = ACCESS_DENIED
          /\ auditLogs[i].reason = "account_disabled"
          /\ auditLogs[i].uid = "u3"

\* ---- C33 ---------------------------------------------------------------

\* C33: a status change with isActive = true by the administrator, with every
\* store working, sets the target's isActive flag to true and hands one
\* role_change event with action enable_user to logEvent, after which the
\* target passes the account check of authenticate; with isActive = false it
\* sets the flag to false and hands one event with action disable_user.
C33_StatusFlipRecorded ==
    \A t \in StatusTargets, a \in BOOLEAN :
        LET resp == updateStatusRequest("u1", t, a, "none")
        IN  users["u1"].isActive /\ authClaims["u1"].role = ADMIN =>
                /\ resp.result = "ok"
                /\ resp.users[t].isActive = a
                /\ Len(resp.logs) = 1
                /\ resp.logs[1].eventType = ROLE_CHANGE
                /\ resp.logs[1].action = (IF a THEN "enable_user" ELSE "disable_user")

\* ---- C34 ---------------------------------------------------------------

\* C34: a role change changes only the role: the employee id that
\* verifyToken returns for a principal is the same after every step as
\* before it, and so is the answer of canAccessDocument for a principal
\* whose role is employee before and after, on every document the step
\* leaves as it was.
C34_RoleChangeKeepsEmployeeId ==
    [][\A uid \in Uids :
          /\ verifyToken(uid).employeeId' = verifyToken(uid).employeeId
          /\ \A d \in DOMAIN documents :
                (/\ d \in DOMAIN documents'
                 /\ documents'[d] = documents[d]
                 /\ verifyToken(uid).role = EMPLOYEE
                 /\ verifyToken(uid).role' = EMPLOYEE)
                    => canAccessDocument(verifyToken(uid), documents[d])'
                           = canAccessDocument(verifyToken(uid), documents[d])]_vars

\* ---- C35 ---------------------------------------------------------------

\* C35: in every reachable state the role in a principal's auth claims and
\* the role in its users record are equal; a role update that fails changes
\* neither, so that its role_change event with success false goes with an
\* unchanged effective role.
C35_RolesAgree ==
    /\ \A uid \in Uids : verifyToken(uid).role = users[uid].role
    /\ \A t \in RoleTargets, r \in Roles, fail \in RoleFailures :
          LET resp == updateUserRole(verifyToken("u1"), t, r, fail)
          IN  (\E i \in DOMAIN resp.logs :
                   resp.logs[i].eventType = ROLE_CHANGE /\ ~resp.logs[i].success)
                  => /\ resp.authClaims = authClaims
                     /\ resp.users = users

\* ---- C36 ---------------------------------------------------------------

\* C36: in every reachable state every active DocumentRecord has its
\* ciphertext object and its envelope sidecar in the bucket, so the download
\* of an active document by a principal who may read it, with the storage
\* working, does not end in not-found or error.
C36_ActiveHasBothObjects ==
    \A d \in DOMAIN documents :
        documents[d].isActive =>
            /\ {<<d, "data">>, <<d, "enc">>} \subseteq bucket
            /\ \A uid \in Uids :
                  canAccessDocument(verifyToken(uid), documents[d]) = "true"
                      => downloadDocument(d, verifyToken(uid), "none").result = "ok"

\* ---- C37 ---------------------------------------------------------------

MaxRateClock == 6

\* the options of the instances checked (maxRequests, windowMs in clock
\* steps) and the keys of the requests: client address and principal uid
RateOptions == {[maxRequests |-> 1, windowMs |-> 2],
                [maxRequests |-> 2, windowMs |-> 3]}
RateKeys == {<<"10.0.0.1", "u1">>, <<"10.0.0.2", "anonymous">>}

\* requests.get(key) || []
RequestsOf(requests, key) ==
    IF key \in DOMAIN requests THEN requests[key] ELSE <<>>

\* reqs.filter(time => time > windowStart)
Recent(times, windowStart) ==
    LET InWindow(time) == time > windowStart
    IN  SelectSeq(times, InWindow)

\* the periodic clean-up of the Map: every list is filtered, and a key with
\* no request left is deleted
Sweep(requests, windowStart) ==
    [k \in {q \in DOMAIN requests : Recent(requests[q], windowStart) # <<>>} |->
        Recent(requests[k], windowStart)]

\* variant of rateLimit: a request is admitted while the list is not longer
\* than maxRequests
rateLimit_oneMore(requests, options, key, dateNow, sweep) ==
    LET windowStart == dateNow - options.windowMs
        userRequests == Recent(RequestsOf(requests, key), windowStart)
        pushed == [k \in DOMAIN requests \cup {key} |->
                      IF k = key THEN Append(userRequests, dateNow) ELSE requests[k]]
    IN  IF Len(userRequests) > options.maxRequests
        THEN [status |-> "429", requests |-> requests,
              retryAfterMs |-> userRequests[1] + options.windowMs - dateNow]
        ELSE [status |-> "next",
              requests |-> IF sweep THEN Sweep(pushed, windowStart) ELSE pushed,
              retryAfterMs |-> 0]

\* the middleware that rateLimit(options) returns, on the Map of the
\* instance: the request under the key at time dateNow is answered 429 when
\* the key has maxRequests requests in the window, and is recorded and
\* passed on otherwise; sweep is the 1% draw of the clean-up
rateLimit(requests, options, key, dateNow, sweep) ==
    LET windowStart == dateNow - options.windowMs
        userRequests == Recent(RequestsOf(requests, key), windowStart)
        pushed == [k \in DOMAIN requests \cup {key} |->
                      IF k = key THEN Append(userRequests, dateNow) ELSE requests[k]]
    IN  IF Len(userRequests) >= options.maxRequests
        THEN [status |-> "429", requests |-> requests,
              retryAfterMs |-> userRequests[1] + options.windowMs - dateNow]
        ELSE [status |-> "next",
              requests |-> IF sweep THEN Sweep(pushed, windowStart) ELSE pushed,
              retryAfterMs |-> 0]

\* a request under a key reaches the instance; served keeps the times of the
\* requests that were passed on to the handler
RateRequest(key, sweep) ==
    LET r == rateLimit(limiter.requests, limiter.options, key, limiter.clock, sweep)
    IN  /\ limiter' = [limiter EXCEPT
                          !.requests = r.requests,
                          !.served[key] = IF r.status = "next"
                                          THEN Append(@, limiter.clock) ELSE @]
        /\ UNCHANGED <<authClaims, users, documents, bucket, auditLogs, auditUp,
                       now, memo, inflight>>

\* Date.now() advances
RateTick ==
    /\ limiter.clock < MaxRateClock
    /\ limiter' = [limiter EXCEPT !.clock = @ + 1]
    /\ UNCHANGED <<authClaims, users, documents, bucket, auditLogs, auditUp,
                   now, memo, inflight>>

InitRate ==
    /\ authClaims = [u \in Uids |->
                        CASE u = "u1" -> [role |-> ADMIN, employeeId |-> "E0"]
                          [] u = "u2" -> [role |-> HR, employeeId |-> "E2"]
                          [] OTHER -> [role |-> EMPLOYEE, employeeId |-> "E1"]]
    /\ users = [u \in Uids |->
                   [role |-> CASE u = "u1" -> ADMIN [] u = "u2" -> HR [] OTHER -> EMPLOYEE,
                    isActive |-> TRUE]]
    /\ documents = <<>>
    /\ bucket = {}
    /\ auditLogs = <<>>
    /\ auditUp = FALSE
    /\ now = 0
    /\ memo = NoMemo
    /\ inflight = NoRequests
    /\ \E options \in RateOptions :
          limiter = [options |-> options, requests |-> <<>>,
                     served |-> [k \in RateKeys |-> <<>>], clock |-> 0]

NextRate ==
    \/ \E key \in RateKeys, sweep \in BOOLEAN : RateRequest(key, sweep)
    \/ RateTick

SpecRate == InitRate /\ [][NextRate]_vars

\* ---- C38 ---------------------------------------------------------------

\* the requests under the key that were passed on in the window of length
\* windowMs that ends at time t
ServedInWindow(key, t) ==
    {i \in DOMAIN limiter.served[key] :
        /\ limiter.served[key][i] > t - limiter.options.windowMs
        /\ limiter.served[key][i] <= t}

\* C38: for the instance and each key, at most maxRequests requests are
\* passed on in any window of length windowMs; a request answered 429 leaves
\* the Map as it was, so it does not delay later admission; and a request
\* under one key changes the answer to no request under another key, now or
\* later.
C38_RateLimited ==
    /\ \A key \in RateKeys, t \in 0..MaxRateClock :
          Cardinality(ServedInWindow(key, t)) <= limiter.options.maxRequests
    /\ \A key \in RateKeys, sweep \in BOOLEAN :
          LET r == rateLimit(limiter.requests, limiter.options, key,
                             limiter.clock, sweep)
          IN  /\ r.status = "429" => r.requests = limiter.requests
              /\ \A other \in RateKeys \ {key}, t \in limiter.clock..MaxRateClock,
                    again \in BOOLEAN :
                    rateLimit(r.requests, limiter.options, other, t, again).status
                        = rateLimit(limiter.requests, limiter.options, other, t,
                                    again).status

\* one key has been passed on more often than maxRequests in all, is answered
\* 429 now, and the other key is passed on
C38_Witness ==
    LET key == <<"10.0.0.1", "u1">>
        other == <<"10.0.0.2", "anonymous">>
    IN  /\ Len(limiter.served[key]) > limiter.options.maxRequests
        /\ rateLimit(limiter.requests, limiter.options, key, limiter.clock,
                     FALSE).status = "429"
        /\ rateLimit(limiter.requests, limiter.options, other, limiter.clock,
                     FALSE).status = "next"

====
